---- MODULE Spec2Model ----
(***************************************************************************)
(* terraform-graphx: the Neo4j synchronizer (internal/neo4j Client,        *)
(* internal/formatter ToCypherTransaction) and the graph builder           *)
(* (internal/builder Build, resolveResourceAddress).                       *)
(*                                                                         *)
(* The store is a property graph: a bag of :Resource nodes (one record of  *)
(* properties per node) and a bag of DEPENDS_ON relationships keyed by the *)
(* ids of their two endpoint nodes.  Bags, not sets, so that a duplicate   *)
(* node or relationship is a state the model can express.                  *)
(***************************************************************************)
EXTENDS Integers, Sequences, FiniteSets, Bags, TLC

(***************************************************************************)
(* Bounds of the model.                                                    *)
(***************************************************************************)
MaxNodes == 2
MaxEdges == 2
MaxRuns == 2
MaxRetries == 1
MaxRefLen == 4
MaxKeys == 2
MaxDepends == 2
MaxRefs == 2

MaxInits == 2

MaxLabelLen == 5

MaxDotEdges == 2
\* tokens of the text of a .gitignore before the first call
MaxTextLen == 3
\* calls of UpdateGitignore in one behaviour
MaxCalls == 2
\* start and stop commands in one behaviour
MaxCommands == 3

(***************************************************************************)
(* Values.                                                                 *)
(***************************************************************************)
Null == "<null>"

DependsOnRelation == "DEPENDS_ON"

ResourceIDs == {"null_resource.cluster", "null_resource.app"}

\* Two descriptions of the same resource id that differ in every property.
NodeVariant(id, v) ==
    IF v = 1
    THEN [id |-> id, type |-> "null_resource", provider |-> "registry/null", name |-> "x"]
    ELSE [id |-> id, type |-> "aws_instance", provider |-> "registry/aws", name |-> "y"]

InputNodes == {NodeVariant(id, v) : id \in ResourceIDs, v \in 1..2}

\* graph.Edge.  An edge may name an id that is not a node of its graph.
InputEdges ==
    {e \in [from : ResourceIDs, to : ResourceIDs, relation : {DependsOnRelation}] :
        e.from # e.to}

BoundedSeqs(S, n) == UNION {[1..k -> S] : k \in 0..n}

UniqueIDs(ns) == \A i, j \in DOMAIN ns : ns[i].id = ns[j].id => i = j

\* graph.Graph: Nodes and Edges are slices; node ids are unique in a Graph.
Graphs ==
    {[nodes |-> ns, edges |-> es] :
        ns \in {s \in BoundedSeqs(InputNodes, MaxNodes) : UniqueIDs(s)},
        es \in BoundedSeqs(InputEdges, MaxEdges)}

EmptyGraph == [nodes |-> <<>>, edges |-> <<>>]

(***************************************************************************)
(* The store and the Cypher clauses the client runs against it.            *)
(***************************************************************************)
EmptyStore == [nodes |-> EmptyBag, rels |-> EmptyBag]

\* the sub-bag of B of the elements in S
RestrictBag(B, S) == [e \in (DOMAIN B) \cap S |-> B[e]]

StoreIDs(s) == {n.id : n \in DOMAIN s.nodes}

\* MATCH (n:Resource) RETURN n.id as id, collected into a map[string]bool
FetchExistingResourceIDs(s) == StoreIDs(s)

NewIDs(graph) == {graph.nodes[i].id : i \in DOMAIN graph.nodes}

\* the difference taken the wrong way round
IdsToDelete_Reversed(existing, graph) == NewIDs(graph) \ existing

IdsToDelete(existing, graph) == existing \ NewIDs(graph)

\* UNWIND $obsoleteIds AS obsoleteId MATCH (n:Resource {id: obsoleteId}) DETACH DELETE n
DetachDelete(s, ids) ==
    [nodes |-> RestrictBag(s.nodes, {n \in DOMAIN s.nodes : n.id \notin ids}),
     rels  |-> RestrictBag(s.rels, {r \in DOMAIN s.rels : r[1] \notin ids /\ r[2] \notin ids})]

\* the query and the parameters of the delete step
DeleteQuery ==
    "UNWIND $obsoleteIds AS obsoleteId MATCH (n:Resource {id: obsoleteId}) DETACH DELETE n"

DeleteRequest(existing, graph) ==
    [query |-> DeleteQuery, params |-> [obsoleteIds |-> IdsToDelete(existing, graph)]]

DeleteObsoleteResources(s, existing, graph) ==
    IF IdsToDelete(existing, graph) # {}
    THEN DetachDelete(s, IdsToDelete(existing, graph))
    ELSE s

\* CREATE in place of MERGE
MergeNode_Create(nodes, id) ==
    nodes (+) SetToBag({[id |-> id, type |-> Null, provider |-> Null, name |-> Null]})

\* MERGE (n:Resource {id: node_data.id}): match every node with that id, or
\* create one node that has the id and no other property.
MergeNode(nodes, id) ==
    IF \E n \in DOMAIN nodes : n.id = id
    THEN nodes
    ELSE nodes (+) SetToBag({[id |-> id, type |-> Null, provider |-> Null, name |-> Null]})

\* a SET clause that leaves n.provider out
SetNode_NoProvider(nodes, nd) ==
    LET matched == RestrictBag(nodes, {n \in DOMAIN nodes : n.id = nd.id})
        others  == RestrictBag(nodes, {n \in DOMAIN nodes : n.id # nd.id})
        Written(n) == [id |-> n.id, type |-> nd.type, provider |-> n.provider, name |-> nd.name]
    IN  others (+) [x \in {Written(n) : n \in DOMAIN matched} |->
                      BagCardinality(RestrictBag(matched, {n \in DOMAIN matched : Written(n) = x}))]

\* SET n.type = node_data.type, n.provider = node_data.provider, n.name = node_data.name
\* on every node the MERGE bound.
SetNode(nodes, nd) ==
    LET matched == RestrictBag(nodes, {n \in DOMAIN nodes : n.id = nd.id})
        others  == RestrictBag(nodes, {n \in DOMAIN nodes : n.id # nd.id})
        written == [id |-> nd.id, type |-> nd.type, provider |-> nd.provider, name |-> nd.name]
    IN  IF BagCardinality(matched) = 0
        THEN nodes
        ELSE others (+) [x \in {written} |-> BagCardinality(matched)]

\* CREATE in place of MERGE for the relationship
MergeRel_Create(s, e) ==
    IF e.from \in StoreIDs(s) /\ e.to \in StoreIDs(s)
    THEN [s EXCEPT !.rels = @ (+) SetToBag({<<e.from, e.to>>})]
    ELSE s

\* the whole pattern is merged, so an end that is not persisted is created
MergeRel_Pattern(s, e) ==
    LET ends == [s EXCEPT !.nodes = MergeNode(MergeNode(@, e.from), e.to)]
    IN  IF BagIn(<<e.from, e.to>>, ends.rels)
        THEN ends
        ELSE [ends EXCEPT !.rels = @ (+) SetToBag({<<e.from, e.to>>})]

\* MATCH (from:Resource {id: edge_data.from}) MATCH (to:Resource {id: edge_data.to})
\* MERGE (from)-[:DEPENDS_ON]->(to)
MergeRel(s, e) ==
    IF e.from \in StoreIDs(s) /\ e.to \in StoreIDs(s) /\ ~BagIn(<<e.from, e.to>>, s.rels)
    THEN [s EXCEPT !.rels = @ (+) SetToBag({<<e.from, e.to>>})]
    ELSE s

\* formatter.ToCypherTransaction: the query text (one string per line
\* written to the buffer) and the parameter map.
NodeClauses ==
    << "UNWIND $nodes AS node_data",
       "MERGE (n:Resource {id: node_data.id})",
       "SET n.type = node_data.type, n.provider = node_data.provider, n.name = node_data.name" >>

EdgeClauses ==
    << "WITH *",
       "UNWIND $edges AS edge_data",
       "MATCH (from:Resource {id: edge_data.from})",
       "MATCH (to:Resource {id: edge_data.to})",
       "MERGE (from)-[:DEPENDS_ON]->(to)" >>

\* the id of the first node is written into the MERGE clause
ToCypherTransaction_Interpolated(graph) ==
    LET nodesData == [i \in DOMAIN graph.nodes |->
                        [id |-> graph.nodes[i].id, type |-> graph.nodes[i].type,
                         provider |-> graph.nodes[i].provider, name |-> graph.nodes[i].name]]
        edgesData == [i \in DOMAIN graph.edges |->
                        [from |-> graph.edges[i].from, to |-> graph.edges[i].to]]
        merge     == IF graph.nodes = <<>> THEN NodeClauses[2]
                     ELSE "MERGE (n:Resource {id: '" \o graph.nodes[1].id \o "'})"
        clauses   == <<NodeClauses[1], merge, NodeClauses[3]>>
    IN  IF Len(graph.edges) > 0
        THEN [query |-> clauses \o EdgeClauses,
              params |-> [nodes |-> nodesData, edges |-> edgesData]]
        ELSE [query |-> clauses,
              params |-> [nodes |-> nodesData]]

ToCypherTransaction(graph) ==
    LET nodesData == [i \in DOMAIN graph.nodes |->
                        [id |-> graph.nodes[i].id, type |-> graph.nodes[i].type,
                         provider |-> graph.nodes[i].provider, name |-> graph.nodes[i].name]]
        edgesData == [i \in DOMAIN graph.edges |->
                        [from |-> graph.edges[i].from, to |-> graph.edges[i].to]]
    IN  IF Len(graph.edges) > 0
        THEN [query |-> NodeClauses \o EdgeClauses,
              params |-> [nodes |-> nodesData, edges |-> edgesData]]
        ELSE [query |-> NodeClauses,
              params |-> [nodes |-> nodesData]]

RECURSIVE MergeSetAll(_, _)
MergeSetAll(nodes, nodesData) ==
    IF nodesData = <<>>
    THEN nodes
    ELSE MergeSetAll(SetNode(MergeNode(nodes, Head(nodesData).id), Head(nodesData)),
                     Tail(nodesData))

RECURSIVE MergeRelAll(_, _)
MergeRelAll(s, rows) ==
    IF rows = <<>>
    THEN s
    ELSE MergeRelAll(MergeRel(s, Head(rows)), Tail(rows))

\* tx.Run(ctx, query, params) for the query of ToCypherTransaction.  The
\* first UNWIND yields one row per node; after WITH * the second UNWIND
\* yields one row per (node row, edge), so the relationship MERGE runs
\* Len(nodes) * Len(edges) times, and not at all when $nodes is empty.
RunUpsert(s, q) ==
    LET afterNodes == [s EXCEPT !.nodes = MergeSetAll(@, q.params.nodes)]
        nrows      == Len(q.params.nodes)
    IN  IF Len(q.query) > Len(NodeClauses)
        THEN LET ne   == Len(q.params.edges)
                 rows == [i \in 1..(nrows * ne) |-> q.params.edges[((i - 1) % ne) + 1]]
             IN  MergeRelAll(afterNodes, rows)
        ELSE afterNodes

UpsertGraph(s, graph) == RunUpsert(s, ToCypherTransaction(graph))

\* The managed transaction of session.ExecuteWrite: commit when the
\* function returns no error, roll back otherwise.
CommitTx(committed, work) == work

RollbackTx(committed, work) == committed

(***************************************************************************)
(* Strings of the builder.  A string is a sequence of tokens, each token a *)
(* run of bytes that is never split: "." and "[" are tokens of their own,  *)
(* no token is a prefix of another, so one string is a prefix of another   *)
(* exactly when its token sequence is.  len() counts bytes.                *)
(***************************************************************************)
EmptyString == <<>>

RefTokens == {"var", "local", "data", "x", ".", "["}

RECURSIVE StrLen(_)
StrLen(str) == IF str = <<>> THEN 0 ELSE Len(Head(str)) + StrLen(Tail(str))

\* strings.HasPrefix
HasPrefix(str, prefix) ==
    /\ Len(prefix) <= Len(str)
    /\ SubSeq(str, 1, Len(prefix)) = prefix

\* strings.Split(str, "."): always at least one part
RECURSIVE Split(_)
Split(str) ==
    IF \A i \in DOMAIN str : str[i] # "."
    THEN <<str>>
    ELSE LET k == CHOOSE i \in DOMAIN str :
                      str[i] = "." /\ \A j \in 1..(i - 1) : str[j] # "."
         IN  <<SubSeq(str, 1, k - 1)>> \o Split(SubSeq(str, k + 1, Len(str)))

\* strings.Join(parts, ".")
RECURSIVE Join(_)
Join(parts) ==
    IF Len(parts) = 0 THEN <<>>
    ELSE IF Len(parts) = 1 THEN parts[1]
    ELSE parts[1] \o <<".">> \o Join(Tail(parts))

\* the outcome of a call that panics (slice bounds out of range)
Panic == <<"<panic>">>

\* the comparator of sort.Slice always returns false
IsSortedByLength_Unsorted(keys) == TRUE

\* sort.Slice(nodeKeys, len(nodeKeys[i]) > len(nodeKeys[j])): the keys end
\* up in non-increasing length
IsSortedByLength(keys) ==
    \A i, j \in DOMAIN keys : i < j => StrLen(keys[i]) >= StrLen(keys[j])

\* createNodeLookupMap: one key per node, sorted by length.  sort.Slice is
\* not stable, so every order of equal-length keys can come out.
NodeKeyOrders(ids) ==
    {keys \in {[i \in DOMAIN ids |-> ids[pi[i]]] : pi \in Permutations(DOMAIN ids)} :
        IsSortedByLength(keys)}

\* some slice that holds the elements of a set once each
SliceOf(S) ==
    CHOOSE sl \in [1..Cardinality(S) -> S] : \A e \in S : \E i \in DOMAIN sl : sl[i] = e

\* only "var" is filtered
IsVarOrLocal_VarOnly(parts) == Len(parts) > 0 /\ parts[1] = <<"var">>

\* len(parts) > 0 && (parts[0] == "var" || parts[0] == "local")
IsVarOrLocal(parts) ==
    Len(parts) > 0 /\ (parts[1] = <<"var">> \/ parts[1] = <<"local">>)

\* strings.Contains(ref, key) in place of the three tests
KeyMatches_Contains(reference, key) ==
    \E i \in 1..(Len(reference) + 1) :
        \E j \in (i - 1)..Len(reference) : SubSeq(reference, i, j) = key

\* ref == key || strings.HasPrefix(ref, key+".") || strings.HasPrefix(ref, key+"[")
KeyMatches(reference, key) ==
    \/ reference = key
    \/ HasPrefix(reference, key \o <<".">>)
    \/ HasPrefix(reference, key \o <<"[">>)

\* for _, key := range nodeKeys { if ... { return key } }
FirstMatch(reference, keys) ==
    IF \E i \in DOMAIN keys : KeyMatches(reference, keys[i])
    THEN keys[CHOOSE i \in DOMAIN keys :
                 /\ KeyMatches(reference, keys[i])
                 /\ \A j \in 1..(i - 1) : ~KeyMatches(reference, keys[j])]
    ELSE EmptyString

HasMatch(reference, keys) == \E i \in DOMAIN keys : KeyMatches(reference, keys[i])

\* builder.resolveResourceAddress
resolveResourceAddress(reference, keys) ==
    LET parts == Split(reference)
    IN  IF IsVarOrLocal(parts) THEN EmptyString
        ELSE IF HasMatch(reference, keys) THEN FirstMatch(reference, keys)
        ELSE IF Len(parts) >= 3 /\ parts[1] = <<"data">>
             THEN Join(SubSeq(parts, 1, 3))
        ELSE EmptyString

\* builder.getRootResourceAddress: parts[:3] without a length check
getRootResourceAddress(reference, keys) ==
    LET parts == Split(reference)
    IN  IF IsVarOrLocal(parts) THEN EmptyString
        ELSE IF HasMatch(reference, keys) THEN FirstMatch(reference, keys)
        ELSE IF Len(parts) > 0 /\ parts[1] = <<"data">>
             THEN IF Len(parts) >= 3 THEN Join(SubSeq(parts, 1, 3)) ELSE Panic
        ELSE EmptyString

\* fmt.Sprintf("%s -> %s", from, to)
EdgeKey(from, to) == from \o <<" -> ">> \o to

\* the callback without the comparison of the two addresses
EdgeKeysOf_NoSelfCheck(address, depAddress) ==
    IF depAddress # EmptyString THEN {EdgeKey(address, depAddress)} ELSE {}

\* the callback of extractEdgesFromConfig for one reference of one resource
EdgeKeysOf(address, depAddress) ==
    IF depAddress # EmptyString /\ address # depAddress
    THEN {EdgeKey(address, depAddress)}
    ELSE {}

\* the addresses a node map is drawn from when one reference is resolved
KnownPool ==
    { <<"x">>, <<"x", ".", "x">>, <<"x", ".", "x", ".", "x">>,
      <<"var">>, <<"local">>, <<"data">> }

References == BoundedSeqs(RefTokens, MaxRefLen)

NodeMaps == {ids \in SUBSET KnownPool : Cardinality(ids) <= MaxKeys}

(***************************************************************************)
(* The plan document (parser.TerraformPlan) and builder.Build.             *)
(***************************************************************************)
ManagedResourceMode == "managed"

\* JSON values kept as json.RawMessage: one record shape for every kind
JObject(fields) == [kind |-> "object", fields |-> fields, items |-> <<>>, value |-> <<>>]

JArray(items) == [kind |-> "array", fields |-> <<>>, items |-> items, value |-> <<>>]

JString(str) == [kind |-> "string", fields |-> <<>>, items |-> <<>>, value |-> str]

JNumber == [kind |-> "number", fields |-> <<>>, items |-> <<>>, value |-> <<>>]

JNull == [kind |-> "null", fields |-> <<>>, items |-> <<>>, value |-> <<>>]

\* a RawMessage of length 0: the field was absent from the document
JAbsent == [kind |-> "absent", fields |-> <<>>, items |-> <<>>, value |-> <<>>]

Range(sq) == {sq[i] : i \in DOMAIN sq}

\* json.Unmarshal(refs, &references) with references []string: null gives
\* no references, a null element gives "", anything else but an array of
\* strings is an error
IsStringList(raw) ==
    \/ raw.kind = "null"
    \/ /\ raw.kind = "array"
       /\ \A i \in DOMAIN raw.items : raw.items[i].kind \in {"string", "null"}

StringList(raw) ==
    IF raw.kind = "null" THEN {}
    ELSE {IF raw.items[i].kind = "string" THEN raw.items[i].value ELSE EmptyString :
             i \in DOMAIN raw.items}

\* findReferencesInRawMessage: the set of strings the callback is called with
RECURSIVE findReferencesInRawMessage(_)
findReferencesInRawMessage(raw) ==
    IF raw.kind = "absent" \/ raw.kind = "null" THEN {}
    ELSE IF raw.kind = "object"
    THEN IF "references" \in DOMAIN raw.fields
         THEN IF IsStringList(raw.fields["references"])
              THEN StringList(raw.fields["references"])
              ELSE {}
         ELSE UNION {findReferencesInRawMessage(raw.fields[k]) : k \in DOMAIN raw.fields}
    ELSE IF raw.kind = "array"
    THEN UNION {findReferencesInRawMessage(raw.items[i]) : i \in DOMAIN raw.items}
    ELSE {}

\* json.Unmarshal(r, &resource) with resource parser.ConfigResource
UnmarshalOK(raw) ==
    \/ raw.kind = "null"
    \/ /\ raw.kind = "object"
       /\ "address" \in DOMAIN raw.fields
             => raw.fields["address"].kind \in {"string", "null"}

ConfigResourceOf(raw) ==
    [address     |-> IF raw.kind = "object" /\ "address" \in DOMAIN raw.fields
                        /\ raw.fields["address"].kind = "string"
                     THEN raw.fields["address"].value
                     ELSE EmptyString,
     expressions |-> IF raw.kind = "object" /\ "expressions" \in DOMAIN raw.fields
                     THEN raw.fields["expressions"]
                     ELSE JAbsent]

\* extractNodes: the managed resources of a module, then those of its
\* child modules, in order
RECURSIVE extractNodes(_)
RECURSIVE extractNodesOfAll(_)
\* the mode of an entry is not looked at
extractNodes_AllModes(module) ==
    [i \in DOMAIN module.resources |->
        [id |-> module.resources[i].address, type |-> module.resources[i].type,
         provider |-> module.resources[i].provider_name, name |-> module.resources[i].name]]
    \o extractNodesOfAll(module.child_modules)

extractNodes(module) ==
    LET managed == SelectSeq(module.resources, LAMBDA r : r.mode = ManagedResourceMode)
    IN  [i \in DOMAIN managed |->
            [id |-> managed[i].address, type |-> managed[i].type,
             provider |-> managed[i].provider_name, name |-> managed[i].name]]
        \o extractNodesOfAll(module.child_modules)

extractNodesOfAll(modules) ==
    IF modules = <<>> THEN <<>>
    ELSE extractNodes(Head(modules)) \o extractNodesOfAll(Tail(modules))

\* extractEdgesFromState: the edge keys added to uniqueEdges
RECURSIVE extractEdgesFromState(_, _)
extractEdgesFromState(module, nmap) ==
    UNION ( {IF r.address \in nmap
             THEN {EdgeKey(r.address, dep) : dep \in Range(r.depends_on) \cap nmap}
             ELSE {} : r \in Range(module.resources)}
            \cup {extractEdgesFromState(child, nmap) : child \in Range(module.child_modules)} )

\* the edge keys one resource of the configuration adds
ConfigResourceEdges(raw, nmap, keys) ==
    IF ~UnmarshalOK(raw) THEN {}
    ELSE IF ConfigResourceOf(raw).address \notin nmap THEN {}
    ELSE UNION {EdgeKeysOf(ConfigResourceOf(raw).address, resolveResourceAddress(reference, keys)) :
                   reference \in findReferencesInRawMessage(ConfigResourceOf(raw).expressions)}

\* the scan gives up at the first entry that does not parse
ModuleResourceEdges_Abort(resources, nmap, keys) ==
    IF \E i \in DOMAIN resources : ~UnmarshalOK(resources[i])
    THEN {}
    ELSE UNION {ConfigResourceEdges(resources[i], nmap, keys) : i \in DOMAIN resources}

\* for _, r := range module.Resources { ... }
ModuleResourceEdges(resources, nmap, keys) ==
    UNION {ConfigResourceEdges(resources[i], nmap, keys) : i \in DOMAIN resources}

\* extractEdgesFromConfig: the edge keys added to uniqueEdges
RECURSIVE extractEdgesFromConfig(_, _, _)
extractEdgesFromConfig(module, nmap, keys) ==
    UNION ( {ModuleResourceEdges(module.resources, nmap, keys)}
            \cup {extractEdgesFromConfig(module.module_calls[name].module, nmap, keys) :
                     name \in DOMAIN module.module_calls} )

\* strings.Split(edgeKey, " -> ")
RECURSIVE SplitArrow(_)
SplitArrow(str) ==
    IF \A i \in DOMAIN str : str[i] # " -> "
    THEN <<str>>
    ELSE LET k == CHOOSE i \in DOMAIN str :
                      str[i] = " -> " /\ \A j \in 1..(i - 1) : str[j] # " -> "
         IN  <<SubSeq(str, 1, k - 1)>> \o SplitArrow(SubSeq(str, k + 1, Len(str)))

EdgeOfKey(edgeKey) ==
    [from |-> SplitArrow(edgeKey)[1], to |-> SplitArrow(edgeKey)[2],
     relation |-> DependsOnRelation]

\* convertEdgesToSlice: one edge per key, in the order the map is iterated
convertEdgesToSlice(edgeKeys) ==
    {[i \in DOMAIN order |-> EdgeOfKey(order[i])] :
        order \in {sl \in [1..Cardinality(edgeKeys) -> edgeKeys] :
                      \A k \in edgeKeys : \E i \in DOMAIN sl : sl[i] = k}}

(***************************************************************************)
(* The plans Build is run on.                                              *)
(***************************************************************************)
AddrCluster == <<"null_resource", ".", "cluster">>

AddrApp == <<"null_resource", ".", "app">>

AddrAmi == <<"data", ".", "aws_ami", ".", "ubuntu">>

\* an instance of a for_each resource; the instance key is any string
AddrKeyed == <<"null_resource", ".", "app", "[", "\"a", " -> ", "b\"]">>

AddrModApp == <<"module", ".", "m", ".", "null_resource", ".", "app">>

AddrModAmi == <<"module", ".", "m", ".", "data", ".", "aws_ami", ".", "ubuntu">>

AddrDeep == <<"module", ".", "m", ".", "module", ".", "n", ".", "null_resource", ".", "db">>

\* parser.Resource
PlannedResource(address, mode) ==
    [address |-> address, mode |-> mode,
     type |-> address[Len(address) - 2], name |-> address[Len(address)],
     provider_name |-> "registry.terraform.io/hashicorp/" \o address[Len(address) - 2]]

\* every sub-sequence of a sequence
SubSeqsOf(sq) ==
    {SelectSeq([i \in DOMAIN sq |-> <<i, sq[i]>>], LAMBDA p : p[1] \in keep) :
        keep \in SUBSET DOMAIN sq}

Seconds(pairs) == [i \in DOMAIN pairs |-> pairs[i][2]]

\* parser.Module: planned_values.root_module
PlannedGrandChild ==
    [resources |-> <<PlannedResource(AddrDeep, "managed")>>, child_modules |-> <<>>]

PlannedChild ==
    [resources |-> << PlannedResource(AddrModAmi, "data"),
                      PlannedResource(AddrModApp, "managed") >>,
     child_modules |-> <<PlannedGrandChild>>]

PlannedModules(withModule) ==
    {[resources |-> Seconds(rs),
      child_modules |-> IF withModule THEN <<PlannedChild>> ELSE <<>>] :
        rs \in SubSeqsOf(<< PlannedResource(AddrCluster, "managed"),
                            PlannedResource(AddrApp, "managed"),
                            PlannedResource(AddrAmi, "data"),
                            PlannedResource(AddrKeyed, "managed") >>)}

\* parser.StateModule: prior_state.values.root_module
DependsOnLists == BoundedSeqs({AddrCluster, AddrApp, AddrAmi}, MaxDepends)

\* the child module lists a resource of the root module once more
StateChild ==
    [resources |-> << [address |-> AddrModApp, depends_on |-> <<AddrCluster>>],
                      [address |-> AddrApp, depends_on |-> <<AddrCluster>>] >>,
     child_modules |-> <<>>]

StateModules(withModule) ==
    {[resources |-> << [address |-> source, depends_on |-> deps],
                       [address |-> AddrAmi, depends_on |-> <<AddrCluster>>] >>,
      child_modules |-> IF withModule THEN <<StateChild>> ELSE <<>>] :
        source \in {AddrApp, AddrKeyed}, deps \in DependsOnLists}

\* no prior state: the first plan of a configuration
EmptyState == [resources |-> <<>>, child_modules |-> <<>>]

\* parser.ConfigModule: configuration.root_module
ReferencePool ==
    { AddrCluster \o <<".", "id">>,
      AddrApp,
      AddrApp \o <<".", "id">>,
      AddrApp \o <<"[", "0]", ".", "id">>,
      AddrAmi \o <<".", "id">>,
      <<"var", ".", "region">> }

ReferenceLists == BoundedSeqs(ReferencePool, MaxRefs)

\* parser.Expression as it is found in the document
JReferences(references) ==
    JObject("references" :> JArray([i \in DOMAIN references |-> JString(references[i])]))

JConstant == JObject("constant_value" :> JNumber)

\* the layouts of the expressions of one resource:
\*   flat    an attribute holding an expression
\*   block   a nested block, an array of objects of attributes
\*   inside  an expression object that holds a further expression
\*   named   an attribute that is itself named "references"
ExpressionShapes == {"flat", "block", "inside", "named"}

ExpressionsOf(references, shape) ==
    IF shape = "flat"
    THEN "triggers" :> JReferences(references)
    ELSE IF shape = "block"
    THEN "connection" :> JArray(<< JObject("port" :> JConstant),
                                   JObject("host" :> JReferences(references)) >>)
    ELSE IF shape = "inside"
    THEN "triggers" :> JObject( "references" :> JArray(<<JString(<<"var", ".", "region">>)>>)
                                @@ "value" :> JReferences(references) )
    ELSE "references" :> JConstant @@ "triggers" :> JReferences(references)

\* what is wrong with the document: nothing, an attribute whose references
\* are not a list of strings, or resource entries of another shape
Malformations == {"none", "fragment", "resource"}

BadFragment == JObject("references" :> JNumber)

BadResources == << JNumber, JObject("address" :> JNumber @@ "expressions" :> JNull) >>

ConfigResourceRaw(address, references, shape, malformed) ==
    JObject( "address" :> JString(address)
             @@ "expressions" :>
                  JObject( IF malformed = "fragment"
                           THEN "count" :> BadFragment @@ ExpressionsOf(references, shape)
                           ELSE ExpressionsOf(references, shape) ) )

ConfigChild(malformed) ==
    [resources |->
        <<ConfigResourceRaw(AddrModApp, <<AddrCluster \o <<".", "id">>>>, "flat", malformed)>>
        \o (IF malformed = "resource" THEN BadResources ELSE <<>>),
     module_calls |-> <<>>]

ConfigModules(withModule) ==
    {[resources |->
        (IF malformed = "resource" THEN BadResources ELSE <<>>)
        \o <<ConfigResourceRaw(AddrApp, references, shape, malformed)>>,
      module_calls |-> IF withModule THEN "m" :> [module |-> ConfigChild(malformed)] ELSE <<>>] :
        references \in ReferenceLists, shape \in ExpressionShapes,
        malformed \in Malformations}

\* the configuration of the plans whose prior state is what varies
PlainConfig(withModule) ==
    [resources |-> <<ConfigResourceRaw(AddrApp, <<AddrAmi \o <<".", "id">>>>, "flat", "none")>>,
     module_calls |-> IF withModule THEN "m" :> [module |-> ConfigChild("none")] ELSE <<>>]

\* parser.TerraformPlan: plans that come with a prior state, and first
\* plans, whose dependencies are only in the configuration
Plans ==
    UNION {[planned_values : PlannedModules(withModule),
            prior_state    : StateModules(withModule),
            configuration  : {PlainConfig(withModule)}] : withModule \in BOOLEAN}
    \cup
    UNION {[planned_values : PlannedModules(withModule),
            prior_state    : {EmptyState},
            configuration  : ConfigModules(withModule)] : withModule \in BOOLEAN}

EmptyPlan ==
    [planned_values |-> [resources |-> <<>>, child_modules |-> <<>>],
     prior_state    |-> [resources |-> <<>>, child_modules |-> <<>>],
     configuration  |-> [resources |-> <<>>, module_calls |-> <<>>]]

(***************************************************************************)
(* config.LoadAndMerge: the configuration file, the flags and the          *)
(* positional arguments of one command line.                               *)
(***************************************************************************)
NoConfig == [error |-> "none"]

\* config.DefaultConfig
DefaultConfig ==
    [uri |-> "bolt://localhost:7687", user |-> "neo4j", password |-> "",
     docker_image |-> "neo4j:community", format |-> "json", planfile |-> "", update |-> FALSE]

\* what v.Unmarshal gives for a key the file does not have: the default set
\* with v.SetDefault for neo4j.uri, neo4j.user and neo4j.password, the zero
\* value for the others
ViperDefaults ==
    [uri |-> "bolt://localhost:7687", user |-> "neo4j", password |-> "",
     docker_image |-> "", format |-> "", planfile |-> "", update |-> FALSE]

ConfigFields == {"uri", "user", "password", "docker_image", "format", "planfile", "update"}

\* the file: none in the search path, one that cannot be read, or its keys
NoFile == [state |-> "absent", keys |-> <<>>]

UnreadableFile == [state |-> "unreadable", keys |-> <<>>]

\* the file init writes
InitFile ==
    [state |-> "present",
     keys |-> [uri |-> "bolt://localhost:7687", user |-> "neo4j",
               password |-> "Zx81", docker_image |-> "neo4j:community"]]

\* a file that sets every key
FullFile ==
    [state |-> "present",
     keys |-> [uri |-> "bolt://db:7687", user |-> "admin", password |-> "filepass",
               docker_image |-> "neo4j:5", format |-> "cypher",
               planfile |-> "file.tfplan", update |-> TRUE]]

ConfigFiles == {NoFile, UnreadableFile, InitFile, FullFile}

\* a flag: whether it was set on the command line, and what Get returns
\* (the default of the flag when it was not set)
Unset(default) == [changed |-> FALSE, value |-> default]

SetTo(value) == [changed |-> TRUE, value |-> value]

NoFlags ==
    [format |-> Unset("json"), update |-> Unset(FALSE),
     neo4j_uri |-> Unset("bolt://localhost:7687"), neo4j_user |-> Unset("neo4j"),
     neo4j_pass |-> Unset(""), plan |-> Unset("")]

FlagSets ==
    [format     : {Unset("json"), SetTo("json"), SetTo("cypher")},
     update     : {Unset(FALSE), SetTo(FALSE), SetTo(TRUE)},
     neo4j_uri  : {Unset("bolt://localhost:7687"), SetTo("bolt://flag:7687")},
     neo4j_user : {Unset("neo4j"), SetTo("flaguser")},
     neo4j_pass : {Unset(""), SetTo("flagpass")},
     plan       : {Unset(""), SetTo("flag.tfplan")}]

ArgLists == {<<>>, <<"arg.tfplan">>}

\* config.Load
Load(f) ==
    IF f.state = "absent" THEN DefaultConfig
    ELSE IF f.state = "unreadable" THEN [error |-> "failed to read config file"]
    ELSE [k \in ConfigFields |-> IF k \in DOMAIN f.keys THEN f.keys[k] ELSE ViperDefaults[k]]

\* the flag's value is taken whether or not the flag was set
FlagOr_Always(flag, value) == flag.value

\* if cmd.Flags().Changed(name) { field, _ = cmd.Flags().GetString(name) }
FlagOr(flag, value) == IF flag.changed THEN flag.value ELSE value

\* if len(args) > 0 { args[0] } else if Changed("plan") { GetString("plan") }
PlanFileOf(arguments, flag, value) ==
    IF Len(arguments) > 0 THEN arguments[1] ELSE FlagOr(flag, value)

\* config.LoadAndMerge for a file that was loaded
LoadAndMerge(f, fl, arguments) ==
    LET loaded == Load(f)
    IN  [uri          |-> FlagOr(fl.neo4j_uri, loaded.uri),
         user         |-> FlagOr(fl.neo4j_user, loaded.user),
         password     |-> FlagOr(fl.neo4j_pass, loaded.password),
         docker_image |-> loaded.docker_image,
         format       |-> FlagOr(fl.format, loaded.format),
         planfile     |-> PlanFileOf(arguments, fl.plan, loaded.planfile),
         update       |-> FlagOr(fl.update, loaded.update)]

(***************************************************************************)
(* The init command: the files of the current directory.                   *)
(***************************************************************************)
Absent == [exists |-> FALSE, password |-> "", lines |-> <<>>]

\* .terraform-graphx.yaml with the password it holds
ConfigFile(password) == [exists |-> TRUE, password |-> password, lines |-> <<>>]

\* .gitignore as the lines of its text; the empty text is one empty line
Gitignore(lines) == [exists |-> TRUE, password |-> "", lines |-> lines]

ConfigEntry == ".terraform-graphx.yaml"

DataEntry == "neo4j-data/"

EmptyDir == [config |-> Absent, dataDir |-> FALSE, gitignore |-> Absent, gitRepo |-> FALSE]

\* generateRandomPassword(16): some alphanumeric string
Passwords == {"q7Gd", "Zx81"}

Directories ==
    [config    : {Absent, ConfigFile("old0")},
     dataDir   : BOOLEAN,
     gitignore : {Absent, Gitignore(<<"">>), Gitignore(<<"*.tfstate", "">>),
                  Gitignore(<<ConfigEntry>>), Gitignore(<<ConfigEntry, DataEntry>>)},
     gitRepo   : BOOLEAN]

\* errors are kept as the pieces fmt.Errorf puts together
NoError == <<>>

AlreadyExistsError == <<"configuration file ", "already exists", " at ", ConfigEntry>>

PasswordError == <<"failed to generate random password: ", "rand">>

SaveError == <<"failed to create config file: ", "io">>

MkdirError == <<"failed to create neo4j-data directory: ", "io">>

Contains(err, piece) == \E i \in DOMAIN err : err[i] = piece

\* the existing file is written over
StatFindsFile_Never(dir) == FALSE

\* if _, err := os.Stat(configPath); err == nil
StatFindsFile(dir) == dir.config.exists

\* the entries of entriesToIgnore that no line of the file holds, appended
\* each as "\n" + entry
AppendMissing(lines, entries) ==
    lines \o SelectSeq(entries, LAMBDA e : \A i \in DOMAIN lines : lines[i] # e)

\* updateGitignore: nothing outside a work tree; otherwise the file is
\* opened with O_APPEND|O_CREATE and the missing entries are appended
UpdateGitignore(dir) ==
    IF ~dir.gitRepo THEN dir.gitignore
    ELSE Gitignore(AppendMissing(IF dir.gitignore.exists THEN dir.gitignore.lines ELSE <<"">>,
                                 <<ConfigEntry, DataEntry>>))

(***************************************************************************)
(* parser.ParseGraph.  The names and labels of a DOT graph are strings of  *)
(* single characters.                                                      *)
(***************************************************************************)
Quote == "\""

LabelChars == {Quote, "[", "]", ".", "a"}

\* strings.Trim(label, `"`)
RECURSIVE TrimQuotes(_)
TrimQuotes(str) ==
    IF str # <<>> /\ Head(str) = Quote THEN TrimQuotes(Tail(str))
    ELSE IF str # <<>> /\ str[Len(str)] = Quote THEN TrimQuotes(SubSeq(str, 1, Len(str) - 1))
    ELSE str

\* where \["(.*?)"\] matches when it starts at i: the positions of a closing "]
ClosingAt(str, i) ==
    {j \in (i + 2)..(Len(str) - 1) : str[j] = Quote /\ str[j + 1] = "]"}

MatchStarts(str) ==
    {i \in 1..(Len(str) - 3) : str[i] = "[" /\ str[i + 1] = Quote /\ ClosingAt(str, i) # {}}

Min(S) == CHOOSE x \in S : \A y \in S : x <= y

\* the quotes are left on
cleanLabel_NoTrim(label) ==
    IF MatchStarts(label) # {}
    THEN SubSeq(label, Min(MatchStarts(label)) + 2,
                Min(ClosingAt(label, Min(MatchStarts(label)))) - 1)
    ELSE label

\* parser.cleanLabel: the leftmost match of the pattern, its group as short
\* as possible
cleanLabel(label) ==
    LET trimmed == TrimQuotes(label)
    IN  IF MatchStarts(trimmed) # {}
        THEN SubSeq(trimmed, Min(MatchStarts(trimmed)) + 2,
                    Min(ClosingAt(trimmed, Min(MatchStarts(trimmed)))) - 1)
        ELSE trimmed

\* a node of gographviz: its name and, when it has one, its label attribute
DotNode(name, hasLabel, label) == [name |-> name, hasLabel |-> hasLabel, label |-> label]

NilGraph == [nil |-> TRUE, nodes |-> {}, edges |-> <<>>]

DotGraphOf(nodes, edges) == [nil |-> FALSE, nodes |-> nodes, edges |-> edges]

NoResult == [err |-> "none", nodes |-> <<>>, edges |-> <<>>]

\* label := nodeName; if a label attribute exists, label = labelAttr
LabelOf(node) == IF node.hasLabel THEN node.label ELSE node.name

\* the node ParseGraph appends for a DOT node
ParsedNode(node) ==
    LET address == cleanLabel(LabelOf(node))
        parts   == Split(address)
    IN  [id       |-> address,
         type     |-> IF Len(parts) >= 2 THEN parts[Len(parts) - 1] ELSE EmptyString,
         name     |-> IF Len(parts) >= 2 THEN parts[Len(parts)] ELSE EmptyString,
         provider |-> EmptyString]

\* nodeMap of ParseGraph: node name -> cleaned address
AddressOfName(nodes, name) ==
    cleanLabel(LabelOf(CHOOSE n \in nodes : n.name = name))

NodeNames(nodes) == {n.name : n \in nodes}

\* every slice that holds the elements of a set once each
Orderings(S) ==
    {sl \in [1..Cardinality(S) -> S] : \A e \in S : \E i \in DOMAIN sl : sl[i] = e}

\* for nodeName, node := range dotGraph.Nodes.Lookup: the map is walked in
\* any order
ParsedNodes(nodes) ==
    {[i \in DOMAIN order |-> ParsedNode(order[i])] : order \in Orderings(nodes)}

\* the edge is kept when its source is a node
KeepEdge_SourceOnly(nodes, edge) == edge.src \in NodeNames(nodes)

\* if okFrom && okTo
KeepEdge(nodes, edge) ==
    edge.src \in NodeNames(nodes) /\ edge.dst \in NodeNames(nodes)

\* the address of a name that is no node is the zero value of the map
LookupAddress(nodes, name) ==
    IF name \in NodeNames(nodes) THEN AddressOfName(nodes, name) ELSE EmptyString

ParsedEdges(nodes, edges) ==
    LET kept == SelectSeq(edges, LAMBDA e : KeepEdge(nodes, e))
    IN  [i \in DOMAIN kept |->
            [from |-> LookupAddress(nodes, kept[i].src),
             to |-> LookupAddress(nodes, kept[i].dst),
             relation |-> "DEPENDS_ON"]]

\* the graphs ParseGraph is run on
NameA == <<"a">>

NameQuoted == <<Quote, "a", ".", "a", Quote>>

NameOther == <<"a", ".", "a", ".", "a">>

BracketLabel == <<"[", Quote, "a", ".", "a", Quote, "]">>

Labels == BoundedSeqs(LabelChars, MaxLabelLen)

DotEdges == [src : {NameA, NameQuoted, NameOther}, dst : {NameA, NameQuoted, NameOther}]

\* one node whose label is any string, beside a node without a label
LabelledGraphs ==
    {DotGraphOf({DotNode(NameA, TRUE, label), DotNode(NameQuoted, FALSE, <<>>)},
                <<[src |-> NameA, dst |-> NameQuoted]>>) : label \in Labels}

\* any edges over a few nodes
EdgeGraphs ==
    {DotGraphOf(nodes, edges) :
        nodes \in SUBSET {DotNode(NameA, TRUE, BracketLabel), DotNode(NameQuoted, FALSE, <<>>)},
        edges \in BoundedSeqs(DotEdges, MaxDotEdges)}

DotGraphs == {NilGraph} \cup LabelledGraphs \cup EdgeGraphs

(***************************************************************************)
(* runner.updateNeo4jDatabase: the configuration it is given, the driver   *)
(* and the session it acquires.                                            *)
(***************************************************************************)
NoNeo4jConfig == [uri |-> "", user |-> "", password |-> ""]

\* config.Neo4jConfig as LoadAndMerge leaves it: any of the three may be empty
Neo4jConfigs ==
    [uri : {"", "bolt://localhost:7687"}, user : {"", "neo4j"}, password : {"", "Zx81"}]

\* only the URI is looked at
validateNeo4jConfig_UriOnly(c) == c.uri # ""

\* validateNeo4jConfig returns nil
validateNeo4jConfig(c) == ~(c.uri = "" \/ c.user = "" \/ c.password = "")

NoSteps == [validate |-> "none", client |-> "none", verify |-> "none"]

\* a driver or a session: never acquired, open or closed, with the number
\* of times it was acquired and closed
NotAcquired == [state |-> "none", acquired |-> 0, closed |-> 0]

Acquire(r) == [state |-> "open", acquired |-> r.acquired + 1, closed |-> r.closed]

Close(r) == [state |-> "closed", acquired |-> r.acquired, closed |-> r.closed + 1]

ValidationError == "neo4j-uri, neo4j-user, and neo4j-pass are required"

ClientError == "failed to create neo4j client"

ConnectError == "failed to connect to neo4j"

UpdateError == "failed to update neo4j graph"

(***************************************************************************)
(* git.UpdateGitignore.  The text of .gitignore is a sequence of tokens:   *)
(* the line feed, the space, and runs of other bytes that are never split. *)
(***************************************************************************)
NL == "\n"

SP == " "

IgnoreTokens == {NL, SP, ConfigEntry, DataEntry, "*.tfstate"}

NoGitignore == [exists |-> FALSE, text |-> <<>>]

IgnoreFile(text) == [exists |-> TRUE, text |-> text]

\* the files a user may have written
IgnoreFiles ==
    {NoGitignore} \cup {IgnoreFile(text) : text \in BoundedSeqs(IgnoreTokens, MaxTextLen)}

\* entriesToIgnore of runInit
EntriesToIgnore == <<ConfigEntry, DataEntry>>

\* bufio.Scanner with ScanLines: the text between line feeds; a text that
\* ends with a line feed has no empty last line
RECURSIVE ScanLines(_)
ScanLines(text) ==
    IF text = <<>> THEN <<>>
    ELSE IF \A i \in DOMAIN text : text[i] # NL THEN <<text>>
    ELSE LET k == CHOOSE i \in DOMAIN text :
                      text[i] = NL /\ \A j \in 1..(i - 1) : text[j] # NL
         IN  <<SubSeq(text, 1, k - 1)>> \o ScanLines(SubSeq(text, k + 1, Len(text)))

\* strings.TrimSpace on one line
RECURSIVE TrimSpace(_)
TrimSpace(line) ==
    IF line = <<>> THEN <<>>
    ELSE IF Head(line) = SP THEN TrimSpace(Tail(line))
    ELSE IF line[Len(line)] = SP THEN TrimSpace(SubSeq(line, 1, Len(line) - 1))
    ELSE line

\* existingEntries[strings.TrimSpace(scanner.Text())] = true
ExistingEntries(text) == {TrimSpace(ScanLines(text)[i]) : i \in DOMAIN ScanLines(text)}

\* every entry is appended, present or not
MissingEntries_All(text, entries) == entries

\* the entries with !existingEntries[entry], in the order of the list
MissingEntries(text, entries) ==
    SelectSeq(entries, LAMBDA e : <<e>> \notin ExistingEntries(text))

\* file.WriteString("\n" + entry) for each of them, at the end of the file
RECURSIVE AppendEntries(_, _)
AppendEntries(text, added) ==
    IF added = <<>> THEN text
    ELSE AppendEntries(text \o <<NL, Head(added)>>, Tail(added))

\* os.OpenFile(".gitignore", O_APPEND|O_CREATE|O_RDWR): the text once the
\* file is open
OpenedText(f) == IF f.exists THEN f.text ELSE <<>>

OpenError == "could not open or create .gitignore"

ReadError == "error reading .gitignore"

WriteError == "failed to write to .gitignore"

(***************************************************************************)
(* The start and stop commands: the containers of the Docker daemon.       *)
(***************************************************************************)
containerName == "terraform-graphx-neo4j"

\* ids the daemon gives to the containers it creates
ContainerIDs == {"c1", "c2", "c3", "c4"}

ContainerStates == {"running", "exited", "created", "paused"}

NoContainers == <<>>

\* a container that has nothing to do with the tool
OtherContainer == "c0" :> [name |-> "postgres", state |-> "running"]

\* the daemon keeps names unique: at most one container has the name
Daemons ==
    {NoContainers, OtherContainer}
    \cup {"c1" :> [name |-> containerName, state |-> st] : st \in ContainerStates}
    \cup {OtherContainer @@ ("c1" :> [name |-> containerName, state |-> st]) :
             st \in ContainerStates}

NoDockerConfig == NoConfig

\* what config.Load gives the start command
DockerConfigs == {Load(f) : f \in ConfigFiles}

LoadFailed(c) == "error" \in DOMAIN c

\* if name == "/"+containerName
Named(cs) == {id \in DOMAIN cs : cs[id].name = containerName}

Without(cs, ids) == [id \in DOMAIN cs \ ids |-> cs[id]]

\* the state of the container is not looked at
AlreadyRunning_Never(cs) == FALSE

\* if c.State == "running" { return fmt.Errorf("container %s is already running") }
AlreadyRunning(cs) == \E id \in Named(cs) : cs[id].state = "running"

\* cli.ContainerRemove(ctx, c.ID, container.RemoveOptions{Force: true}) on
\* the container of that name
RemoveNamed(cs) == Without(cs, Named(cs))

\* the id of a container the daemon creates: one it never gave before
NewContainerID(cs, before) == CHOOSE id \in ContainerIDs : id \notin DOMAIN cs \cup DOMAIN before

\* cli.ContainerCreate(..., containerName): the container exists, not started
ContainerCreate(cs, id) == cs @@ (id :> [name |-> containerName, state |-> "created"])

\* cli.ContainerStart
ContainerStart(cs, id) == [cs EXCEPT ![id].state = "running"]

\* cli.ContainerStop on a container that runs
ContainerStop(cs, id) == [cs EXCEPT ![id].state = "exited"]

\* runStart went past the checks of the password and of neo4j-data
StartChecked(c, dirExists) == ~LoadFailed(c) /\ c.password # "" /\ dirExists

NoCommand == [name |-> "none", stopFailed |-> FALSE]

(***************************************************************************)
(* State.                                                                  *)
(***************************************************************************)
VARIABLES
    store,        \* the committed content of the database
    tx,           \* the content seen and written inside the open transaction
    g,            \* the graph handed to UpdateGraph; between runs, the graph of
                  \* the run before when that run succeeded
    existingIDs,  \* the local of the transaction function
    pc,           \* position of UpdateGraph
    attempts,     \* executions of the transaction function rolled back so far
    result,       \* "none", "ok" (UpdateGraph returned nil) or "err"
    pre,          \* the committed content when the run started
    same,         \* the run repeats the graph of the successful run before it
    runs,         \* successful runs since the database was empty; between
                  \* runs MaxRuns stands for MaxRuns or more
    ref,          \* the reference being resolved
    nodeMap,      \* the keys of the node map of the graph being built
    nodeKeys,     \* the sorted keys of createNodeLookupMap
    via,          \* the resolver that was called
    depAddress,   \* what the resolver returned
    uniqueEdges,  \* the edge keys collected so far
    rpc,          \* position of the resolution
    plan,         \* the plan handed to Build
    built,        \* the graph Build is filling in
    bpc,          \* position of Build
    file,         \* the configuration file LoadAndMerge finds
    flags,        \* the flags of the command line
    args,         \* the positional arguments of the command line
    cfg,          \* the Config LoadAndMerge returns
    cpc,          \* position of LoadAndMerge
    fs,           \* the directory init is run in
    initErr,      \* what the last run of init returned
    ipc,          \* position of init
    dotGraph,     \* the DOT graph handed to ParseGraph
    parsed,       \* what ParseGraph returned
    ppc,          \* position of ParseGraph
    neo4jCfg,     \* the Neo4jConfig handed to updateNeo4jDatabase
    upc,          \* position of updateNeo4jDatabase
    steps,        \* how validation, NewClient and VerifyConnectivity ended
    driver,       \* the driver of the run: its state, NewDriver and Close calls
    session,      \* the session of the run: its state, NewSession and Close calls
    runErr,       \* what updateNeo4jDatabase returned
    storeBefore,  \* the committed content when updateNeo4jDatabase was called
    inWorkTree,   \* git rev-parse --is-inside-work-tree succeeds
    gitignore,    \* .gitignore: whether it exists and its text
    ignoreBefore, \* .gitignore before the last call of UpdateGitignore
    ignoreErr,    \* what the last call of UpdateGitignore returned
    ignoreCalls,  \* calls of UpdateGitignore so far
    prevOK,       \* the call before the last one returned nil
    containers,   \* the containers of the Docker daemon, by id
    dataDirExists,\* the neo4j-data directory exists
    dockerCfg,    \* what config.Load gives the start command
    lastCmd,      \* the last command, start or stop, and whether ContainerStop failed
    dockerErr,    \* what the last command returned
    containersBefore, \* the containers before the last command
    cmds          \* commands run so far

syncVars == <<store, tx, g, existingIDs, pc, attempts, result, pre, same, runs>>

resolveVars == <<ref, nodeMap, nodeKeys, via, depAddress, uniqueEdges, rpc>>

buildVars == <<plan, built, bpc>>

configVars == <<file, flags, args, cfg, cpc>>

initVars == <<fs, initErr, ipc>>

parseVars == <<dotGraph, parsed, ppc>>

toolVars == <<configVars, initVars, parseVars>>

runVars == <<neo4jCfg, upc, steps, driver, session, runErr, storeBefore>>

ignoreVars == <<inWorkTree, gitignore, ignoreBefore, ignoreErr, ignoreCalls, prevOK>>

dockerVars == <<containers, dataDirExists, dockerCfg, lastCmd, dockerErr, containersBefore, cmds>>

opsVars == <<runVars, ignoreVars, dockerVars>>

vars == <<syncVars, resolveVars, buildVars, toolVars, opsVars>>

TypeOK ==
    /\ pc \in {"idle", "begin", "fetch", "delete", "upsert", "commit", "rollback", "close"}
    /\ g \in Graphs
    /\ attempts \in 0..MaxRetries
    /\ result \in {"none", "ok", "err"}
    /\ same \in BOOLEAN
    /\ runs \in 0..(MaxRuns + 1)
    /\ existingIDs \subseteq ResourceIDs
    /\ IsABag(store.nodes) /\ IsABag(store.rels)

SyncIdle ==
    /\ store = EmptyStore
    /\ tx = EmptyStore
    /\ g = EmptyGraph
    /\ existingIDs = {}
    /\ pc = "idle"
    /\ attempts = 0
    /\ result = "none"
    /\ pre = EmptyStore
    /\ same = FALSE
    /\ runs = 0

ResolveIdle ==
    /\ ref = EmptyString
    /\ nodeMap = {}
    /\ nodeKeys = <<>>
    /\ via = "none"
    /\ depAddress = EmptyString
    /\ uniqueEdges = {}
    /\ rpc = "idle"

BuildIdle ==
    /\ plan = EmptyPlan
    /\ built = EmptyGraph
    /\ bpc = "idle"

ConfigIdle ==
    /\ file = NoFile
    /\ flags = NoFlags
    /\ args = <<>>
    /\ cfg = NoConfig
    /\ cpc = "idle"

InitIdle ==
    /\ fs = EmptyDir
    /\ initErr = NoError
    /\ ipc = "idle"

ParseIdle ==
    /\ dotGraph = NilGraph
    /\ parsed = NoResult
    /\ ppc = "idle"

RunIdle ==
    /\ neo4jCfg = NoNeo4jConfig
    /\ upc = "idle"
    /\ steps = NoSteps
    /\ driver = NotAcquired
    /\ session = NotAcquired
    /\ runErr = "none"
    /\ storeBefore = EmptyStore

IgnoreIdle ==
    /\ inWorkTree = FALSE
    /\ gitignore = NoGitignore
    /\ ignoreBefore = NoGitignore
    /\ ignoreErr = "none"
    /\ ignoreCalls = 0
    /\ prevOK = FALSE

DockerIdle ==
    /\ containers = NoContainers
    /\ dataDirExists = FALSE
    /\ dockerCfg = NoDockerConfig
    /\ lastCmd = NoCommand
    /\ dockerErr = "none"
    /\ containersBefore = NoContainers
    /\ cmds = 0

OpsIdle == RunIdle /\ IgnoreIdle /\ DockerIdle

ToolsIdle == ConfigIdle /\ InitIdle /\ ParseIdle

Init == SyncIdle /\ ResolveIdle /\ BuildIdle /\ ToolsIdle /\ OpsIdle

(***************************************************************************)
(* Client.UpdateGraph, one action per step of the transaction function.    *)
(***************************************************************************)
\* UpdateGraph is called: session := c.Driver.NewSession(...)
StartRun(graph) ==
    /\ pc = "idle"
    /\ g' = graph
    /\ pre' = store
    /\ same' = (result = "ok" /\ graph = g)
    /\ result' = "none"
    /\ attempts' = 0
    /\ pc' = "begin"
    /\ UNCHANGED <<store, tx, existingIDs, runs, resolveVars, buildVars, toolVars, opsVars>>

\* ExecuteWrite opens a transaction and calls the function.
BeginTx ==
    /\ pc = "begin"
    /\ tx' = store
    /\ existingIDs' = {}
    /\ pc' = "fetch"
    /\ UNCHANGED <<store, g, attempts, result, pre, same, runs, resolveVars, buildVars, toolVars, opsVars>>

\* the ids are read by the first execution only; a later one finds its
\* local as BeginTx left it
Fetch_FirstAttemptOnly ==
    /\ pc = "fetch"
    /\ existingIDs' = IF attempts = 0 THEN FetchExistingResourceIDs(tx) ELSE existingIDs
    /\ pc' = "delete"
    /\ UNCHANGED <<store, tx, g, attempts, result, pre, same, runs, resolveVars, buildVars, toolVars, opsVars>>

Fetch ==
    /\ pc = "fetch"
    /\ existingIDs' = FetchExistingResourceIDs(tx)
    /\ pc' = "delete"
    /\ UNCHANGED <<store, tx, g, attempts, result, pre, same, runs, resolveVars, buildVars, toolVars, opsVars>>

\* tx.Run or result.Err() of the id query returns an error
FetchFail ==
    /\ pc = "fetch"
    /\ pc' = "rollback"
    /\ UNCHANGED <<store, tx, g, existingIDs, attempts, result, pre, same, runs, resolveVars, buildVars, toolVars, opsVars>>

Delete ==
    /\ pc = "delete"
    /\ tx' = DeleteObsoleteResources(tx, existingIDs, g)
    /\ pc' = "upsert"
    /\ UNCHANGED <<store, g, existingIDs, attempts, result, pre, same, runs, resolveVars, buildVars, toolVars, opsVars>>

\* the delete query is only run, and so can only fail, when there are ids to delete
DeleteFail ==
    /\ pc = "delete"
    /\ IdsToDelete(existingIDs, g) # {}
    /\ pc' = "rollback"
    /\ UNCHANGED <<store, tx, g, existingIDs, attempts, result, pre, same, runs, resolveVars, buildVars, toolVars, opsVars>>

Upsert ==
    /\ pc = "upsert"
    /\ tx' = UpsertGraph(tx, g)
    /\ pc' = "commit"
    /\ UNCHANGED <<store, g, existingIDs, attempts, result, pre, same, runs, resolveVars, buildVars, toolVars, opsVars>>

\* the error of the upsert is dropped and the function returns nil
UpsertFail_Swallowed ==
    /\ pc = "upsert"
    /\ pc' = "commit"
    /\ UNCHANGED <<store, tx, g, existingIDs, attempts, result, pre, same, runs, resolveVars, buildVars, toolVars, opsVars>>

\* tx.Run of the upsert query returns an error: the deletion is in the
\* transaction, the upsert is not
UpsertFail ==
    /\ pc = "upsert"
    /\ pc' = "rollback"
    /\ UNCHANGED <<store, tx, g, existingIDs, attempts, result, pre, same, runs, resolveVars, buildVars, toolVars, opsVars>>

\* the function returned nil: ExecuteWrite commits, UpdateGraph returns nil
Commit ==
    /\ pc = "commit"
    /\ store' = CommitTx(store, tx)
    /\ result' = "ok"
    /\ runs' = runs + 1
    /\ pc' = "close"
    /\ UNCHANGED <<tx, g, existingIDs, attempts, pre, same, resolveVars, buildVars, toolVars, opsVars>>

\* result.Consume or the commit itself returns an error
CommitFail ==
    /\ pc = "commit"
    /\ pc' = "rollback"
    /\ UNCHANGED <<store, tx, g, existingIDs, attempts, result, pre, same, runs, resolveVars, buildVars, toolVars, opsVars>>

\* ExecuteWrite rolls the transaction back and, for a retryable error,
\* executes the function again in a new transaction
RollbackRetry ==
    /\ pc = "rollback"
    /\ attempts < MaxRetries
    /\ store' = RollbackTx(store, tx)
    /\ attempts' = attempts + 1
    /\ pc' = "begin"
    /\ UNCHANGED <<tx, g, existingIDs, result, pre, same, runs, resolveVars, buildVars, toolVars, opsVars>>

\* ExecuteWrite rolls the transaction back and returns the error;
\* UpdateGraph returns "failed to update graph"
RollbackError ==
    /\ pc = "rollback"
    /\ store' = RollbackTx(store, tx)
    /\ result' = "err"
    /\ pc' = "close"
    /\ UNCHANGED <<tx, g, existingIDs, attempts, pre, same, runs, resolveVars, buildVars, toolVars, opsVars>>

\* defer session.Close(ctx); UpdateGraph returns and its locals are gone
CloseSession ==
    /\ pc = "close"
    /\ pc' = "idle"
    /\ tx' = EmptyStore
    /\ existingIDs' = {}
    /\ attempts' = 0
    /\ pre' = store
    /\ same' = FALSE
    /\ g' = IF result = "ok" THEN g ELSE EmptyGraph
    /\ runs' = IF runs > MaxRuns THEN MaxRuns ELSE runs
    /\ UNCHANGED <<store, result, resolveVars, buildVars, toolVars, opsVars>>

\* MATCH (n:Resource) DETACH DELETE n
ClearDatabase ==
    /\ pc = "idle"
    /\ store # EmptyStore
    /\ store' = EmptyStore
    /\ pre' = EmptyStore
    /\ g' = EmptyGraph
    /\ result' = "none"
    /\ same' = FALSE
    /\ runs' = 0
    /\ UNCHANGED <<tx, existingIDs, pc, attempts, resolveVars, buildVars, toolVars, opsVars>>

Next ==
    \/ \E graph \in Graphs : StartRun(graph)
    \/ BeginTx
    \/ Fetch
    \/ FetchFail
    \/ Delete
    \/ DeleteFail
    \/ Upsert
    \/ UpsertFail
    \/ Commit
    \/ CommitFail
    \/ RollbackRetry
    \/ RollbackError
    \/ CloseSession
    \/ ClearDatabase

Spec == Init /\ [][Next]_vars

(***************************************************************************)
(* Resolution of one reference against the node map of a graph: the keys   *)
(* are sorted, the reference is resolved, and the callback of the          *)
(* configuration scan turns the result into edge keys, once for every      *)
(* resource of the node map that carries the reference.                    *)
(***************************************************************************)
InitResolve ==
    /\ SyncIdle
    /\ BuildIdle
    /\ ToolsIdle
    /\ OpsIdle
    /\ ref \in References
    /\ nodeMap \in NodeMaps
    /\ nodeKeys = <<>>
    /\ via = "none"
    /\ depAddress = EmptyString
    /\ uniqueEdges = {}
    /\ rpc = "input"

CreateNodeLookupMap ==
    /\ rpc = "input"
    /\ nodeKeys' \in NodeKeyOrders(SliceOf(nodeMap))
    /\ rpc' = "sorted"
    /\ UNCHANGED <<ref, nodeMap, via, depAddress, uniqueEdges, syncVars, buildVars, toolVars, opsVars>>

ResolveResourceAddress ==
    /\ rpc = "sorted"
    /\ via' = "resolveResourceAddress"
    /\ depAddress' = resolveResourceAddress(ref, nodeKeys)
    /\ rpc' = "resolved"
    /\ UNCHANGED <<ref, nodeMap, nodeKeys, uniqueEdges, syncVars, buildVars, toolVars, opsVars>>

GetRootResourceAddress ==
    /\ rpc = "sorted"
    /\ via' = "getRootResourceAddress"
    /\ depAddress' = getRootResourceAddress(ref, nodeKeys)
    /\ rpc' = IF getRootResourceAddress(ref, nodeKeys) = Panic THEN "panicked" ELSE "resolved"
    /\ UNCHANGED <<ref, nodeMap, nodeKeys, uniqueEdges, syncVars, buildVars, toolVars, opsVars>>

AddEdges ==
    /\ rpc = "resolved"
    /\ uniqueEdges' = UNION {EdgeKeysOf(address, depAddress) : address \in nodeMap}
    /\ rpc' = "done"
    /\ UNCHANGED <<ref, nodeMap, nodeKeys, via, depAddress, syncVars, buildVars, toolVars, opsVars>>

NextResolve ==
    \/ CreateNodeLookupMap
    \/ ResolveResourceAddress
    \/ GetRootResourceAddress
    \/ AddEdges

SpecResolve == InitResolve /\ [][NextResolve]_vars

(***************************************************************************)
(* builder.Build, one action per call it makes.                            *)
(***************************************************************************)
InitBuild ==
    /\ SyncIdle
    /\ ToolsIdle
    /\ OpsIdle
    /\ ref = EmptyString
    /\ via = "none"
    /\ depAddress = EmptyString
    /\ rpc = "idle"
    /\ plan \in Plans
    /\ built = EmptyGraph
    /\ nodeMap = {}
    /\ nodeKeys = <<>>
    /\ uniqueEdges = {}
    /\ bpc = "start"

\* nodes := extractNodes(&plan.PlannedValues.RootModule)
BuildExtractNodes ==
    /\ bpc = "start"
    /\ built' = [built EXCEPT !.nodes = extractNodes(plan.planned_values)]
    /\ bpc' = "nodes"
    /\ UNCHANGED <<plan, nodeMap, nodeKeys, uniqueEdges, ref, via, depAddress, rpc, syncVars, toolVars, opsVars>>

\* nodeMap, nodeKeys := createNodeLookupMap(g.Nodes)
BuildCreateNodeLookupMap ==
    /\ bpc = "nodes"
    /\ nodeMap' = {built.nodes[i].id : i \in DOMAIN built.nodes}
    /\ nodeKeys' \in NodeKeyOrders([i \in DOMAIN built.nodes |-> built.nodes[i].id])
    /\ bpc' = "lookup"
    /\ UNCHANGED <<plan, built, uniqueEdges, ref, via, depAddress, rpc, syncVars, toolVars, opsVars>>

\* extractEdgesFromState(&plan.PriorState.Values.RootModule, nodeMap, uniqueEdges)
BuildExtractEdgesFromState ==
    /\ bpc = "lookup"
    /\ uniqueEdges' = extractEdgesFromState(plan.prior_state, nodeMap)
    /\ bpc' = "state"
    /\ UNCHANGED <<plan, built, nodeMap, nodeKeys, ref, via, depAddress, rpc, syncVars, toolVars, opsVars>>

\* the configuration is scanned whatever the prior state gave
BuildExtractEdgesFromConfig_Always ==
    /\ bpc = "state"
    /\ uniqueEdges' = uniqueEdges \cup extractEdgesFromConfig(plan.configuration, nodeMap, nodeKeys)
    /\ bpc' = "edges"
    /\ UNCHANGED <<plan, built, nodeMap, nodeKeys, ref, via, depAddress, rpc, syncVars, toolVars, opsVars>>

\* if len(uniqueEdges) == 0 { extractEdgesFromConfig(...) }
BuildExtractEdgesFromConfig ==
    /\ bpc = "state"
    /\ Cardinality(uniqueEdges) = 0
    /\ uniqueEdges' = extractEdgesFromConfig(plan.configuration, nodeMap, nodeKeys)
    /\ bpc' = "edges"
    /\ UNCHANGED <<plan, built, nodeMap, nodeKeys, ref, via, depAddress, rpc, syncVars, toolVars, opsVars>>

BuildKeepStateEdges ==
    /\ bpc = "state"
    /\ Cardinality(uniqueEdges) # 0
    /\ bpc' = "edges"
    /\ UNCHANGED <<plan, built, nodeMap, nodeKeys, uniqueEdges, ref, via, depAddress, rpc, syncVars, toolVars, opsVars>>

\* g.Edges = convertEdgesToSlice(uniqueEdges); return g
BuildConvertEdges ==
    /\ bpc = "edges"
    /\ \E edges \in convertEdgesToSlice(uniqueEdges) :
          built' = [built EXCEPT !.edges = edges]
    /\ bpc' = "done"
    /\ UNCHANGED <<plan, nodeMap, nodeKeys, uniqueEdges, ref, via, depAddress, rpc, syncVars, toolVars, opsVars>>

NextBuild ==
    \/ BuildExtractNodes
    \/ BuildCreateNodeLookupMap
    \/ BuildExtractEdgesFromState
    \/ BuildExtractEdgesFromConfig
    \/ BuildKeepStateEdges
    \/ BuildConvertEdges

SpecBuild == InitBuild /\ [][NextBuild]_vars

(***************************************************************************)
(* config.LoadAndMerge on one command line.                                *)
(***************************************************************************)
InitConfig ==
    /\ SyncIdle /\ ResolveIdle /\ BuildIdle /\ InitIdle /\ ParseIdle
    /\ OpsIdle
    /\ file \in ConfigFiles
    /\ flags \in FlagSets
    /\ args \in ArgLists
    /\ cfg = NoConfig
    /\ cpc = "start"

\* Load succeeded and the flags are merged
LoadAndMergeOK ==
    /\ cpc = "start"
    /\ file.state # "unreadable"
    /\ cfg' = LoadAndMerge(file, flags, args)
    /\ cpc' = "merged"
    /\ UNCHANGED <<file, flags, args, initVars, parseVars, syncVars, resolveVars, buildVars, opsVars>>

\* cfg, err := Load(); if err != nil { return nil, err }
LoadAndMergeFail ==
    /\ cpc = "start"
    /\ file.state = "unreadable"
    /\ cfg' = Load(file)
    /\ cpc' = "failed"
    /\ UNCHANGED <<file, flags, args, initVars, parseVars, syncVars, resolveVars, buildVars, opsVars>>

NextConfig ==
    \/ LoadAndMergeOK
    \/ LoadAndMergeFail

SpecConfig == InitConfig /\ [][NextConfig]_vars

(***************************************************************************)
(* runInit, one action per way it returns.  ipc counts the runs.           *)
(***************************************************************************)
InitInit ==
    /\ SyncIdle /\ ResolveIdle /\ BuildIdle /\ ConfigIdle /\ ParseIdle
    /\ OpsIdle
    /\ fs \in Directories
    /\ initErr = NoError
    /\ ipc = 0

\* the configuration file is there: return at once
InitAlreadyExists ==
    /\ ipc < MaxInits
    /\ StatFindsFile(fs)
    /\ initErr' = AlreadyExistsError
    /\ ipc' = ipc + 1
    /\ UNCHANGED <<fs, configVars, parseVars, syncVars, resolveVars, buildVars, opsVars>>

\* rand.Read failed
InitPasswordFail ==
    /\ ipc < MaxInits
    /\ ~StatFindsFile(fs)
    /\ initErr' = PasswordError
    /\ ipc' = ipc + 1
    /\ UNCHANGED <<fs, configVars, parseVars, syncVars, resolveVars, buildVars, opsVars>>

\* config.Save failed: WriteConfigAs wrote nothing, or it wrote the file and
\* os.Chmod failed
InitSaveFail ==
    /\ ipc < MaxInits
    /\ ~StatFindsFile(fs)
    /\ \/ fs' = fs
       \/ \E password \in Passwords : fs' = [fs EXCEPT !.config = ConfigFile(password)]
    /\ initErr' = SaveError
    /\ ipc' = ipc + 1
    /\ UNCHANGED <<configVars, parseVars, syncVars, resolveVars, buildVars, opsVars>>

\* os.MkdirAll failed after the file was written
InitMkdirFail ==
    /\ ipc < MaxInits
    /\ ~StatFindsFile(fs)
    /\ ~fs.dataDir
    /\ \E password \in Passwords : fs' = [fs EXCEPT !.config = ConfigFile(password)]
    /\ initErr' = MkdirError
    /\ ipc' = ipc + 1
    /\ UNCHANGED <<configVars, parseVars, syncVars, resolveVars, buildVars, opsVars>>

\* the file and the directory are created; a failure of updateGitignore
\* is a warning and leaves .gitignore as it was
InitOK ==
    /\ ipc < MaxInits
    /\ ~StatFindsFile(fs)
    /\ \E password \in Passwords :
          \E ignore \in {UpdateGitignore(fs), fs.gitignore} :
              fs' = [fs EXCEPT !.config = ConfigFile(password),
                               !.dataDir = TRUE,
                               !.gitignore = ignore]
    /\ initErr' = NoError
    /\ ipc' = ipc + 1
    /\ UNCHANGED <<configVars, parseVars, syncVars, resolveVars, buildVars, opsVars>>

NextInit ==
    \/ InitAlreadyExists
    \/ InitPasswordFail
    \/ InitSaveFail
    \/ InitMkdirFail
    \/ InitOK

SpecInit == InitInit /\ [][NextInit]_vars

(***************************************************************************)
(* parser.ParseGraph.                                                      *)
(***************************************************************************)
InitParse ==
    /\ SyncIdle /\ ResolveIdle /\ BuildIdle /\ ConfigIdle /\ InitIdle
    /\ OpsIdle
    /\ dotGraph \in DotGraphs
    /\ parsed = NoResult
    /\ ppc = "start"

\* if dotGraph == nil { return nil, fmt.Errorf("dotGraph cannot be nil") }
ParseGraphNil ==
    /\ ppc = "start"
    /\ dotGraph.nil
    /\ parsed' = [err |-> "dotGraph cannot be nil", nodes |-> <<>>, edges |-> <<>>]
    /\ ppc' = "done"
    /\ UNCHANGED <<dotGraph, configVars, initVars, syncVars, resolveVars, buildVars, opsVars>>

ParseGraphOK ==
    /\ ppc = "start"
    /\ ~dotGraph.nil
    /\ \E nodes \in ParsedNodes(dotGraph.nodes) :
          parsed' = [err |-> "nil", nodes |-> nodes,
                     edges |-> ParsedEdges(dotGraph.nodes, dotGraph.edges)]
    /\ ppc' = "done"
    /\ UNCHANGED <<dotGraph, configVars, initVars, syncVars, resolveVars, buildVars, opsVars>>

NextParse ==
    \/ ParseGraphNil
    \/ ParseGraphOK

SpecParse == InitParse /\ [][NextParse]_vars

(***************************************************************************)
(* runner.updateNeo4jDatabase, one action per step; the steps of           *)
(* Client.UpdateGraph between its call and its return are those above.     *)
(***************************************************************************)
\* the update command calls updateNeo4jDatabase(g, &cfg.Neo4j)
UpdateNeo4jDatabase ==
    /\ upc = "idle"
    /\ pc = "idle"
    /\ neo4jCfg' \in Neo4jConfigs
    /\ steps' = NoSteps
    /\ driver' = NotAcquired
    /\ session' = NotAcquired
    /\ runErr' = "none"
    /\ storeBefore' = store
    /\ upc' = "start"
    /\ UNCHANGED <<syncVars, resolveVars, buildVars, toolVars, ignoreVars, dockerVars>>

\* if err := validateNeo4jConfig(neo4jCfg); err != nil { return err }
ValidateFail ==
    /\ upc = "start"
    /\ ~validateNeo4jConfig(neo4jCfg)
    /\ steps' = [steps EXCEPT !.validate = "failed"]
    /\ runErr' = ValidationError
    /\ upc' = "returned"
    /\ UNCHANGED <<neo4jCfg, driver, session, storeBefore, syncVars, resolveVars, buildVars,
                   toolVars, ignoreVars, dockerVars>>

ValidateOK ==
    /\ upc = "start"
    /\ validateNeo4jConfig(neo4jCfg)
    /\ steps' = [steps EXCEPT !.validate = "ok"]
    /\ upc' = "validated"
    /\ UNCHANGED <<neo4jCfg, driver, session, runErr, storeBefore, syncVars, resolveVars,
                   buildVars, toolVars, ignoreVars, dockerVars>>

\* neo4j.NewClient returns an error: there is no driver to close
NewClientFail ==
    /\ upc = "validated"
    /\ steps' = [steps EXCEPT !.client = "failed"]
    /\ runErr' = ClientError
    /\ upc' = "returned"
    /\ UNCHANGED <<neo4jCfg, driver, session, storeBefore, syncVars, resolveVars, buildVars,
                   toolVars, ignoreVars, dockerVars>>

\* client, err := neo4j.NewClient(...); defer client.Close(ctx)
NewClientOK ==
    /\ upc = "validated"
    /\ steps' = [steps EXCEPT !.client = "ok"]
    /\ driver' = Acquire(driver)
    /\ upc' = "client"
    /\ UNCHANGED <<neo4jCfg, session, runErr, storeBefore, syncVars, resolveVars, buildVars,
                   toolVars, ignoreVars, dockerVars>>

\* the error is returned and the deferred Close is skipped
VerifyConnectivityFail_NoClose ==
    /\ upc = "client"
    /\ steps' = [steps EXCEPT !.verify = "failed"]
    /\ runErr' = ConnectError
    /\ upc' = "returned"
    /\ UNCHANGED <<neo4jCfg, driver, session, storeBefore, syncVars, resolveVars, buildVars,
                   toolVars, ignoreVars, dockerVars>>

\* client.VerifyConnectivity returns an error: the function returns it and
\* the deferred client.Close runs
VerifyConnectivityFail ==
    /\ upc = "client"
    /\ steps' = [steps EXCEPT !.verify = "failed"]
    /\ driver' = Close(driver)
    /\ runErr' = ConnectError
    /\ upc' = "returned"
    /\ UNCHANGED <<neo4jCfg, session, storeBefore, syncVars, resolveVars, buildVars,
                   toolVars, ignoreVars, dockerVars>>

VerifyConnectivityOK ==
    /\ upc = "client"
    /\ steps' = [steps EXCEPT !.verify = "ok"]
    /\ upc' = "verified"
    /\ UNCHANGED <<neo4jCfg, driver, session, runErr, storeBefore, syncVars, resolveVars,
                   buildVars, toolVars, ignoreVars, dockerVars>>

\* client.UpdateGraph(ctx, g) is called: session := c.Driver.NewSession(...);
\* defer session.Close(ctx)
CallUpdateGraph(graph) ==
    /\ upc = "verified"
    /\ pc = "idle"
    /\ session' = Acquire(session)
    /\ g' = graph
    /\ pre' = store
    /\ same' = (result = "ok" /\ graph = g)
    /\ result' = "none"
    /\ attempts' = 0
    /\ pc' = "begin"
    /\ upc' = "updating"
    /\ UNCHANGED <<store, tx, existingIDs, runs, neo4jCfg, steps, driver, runErr, storeBefore,
                   resolveVars, buildVars, toolVars, ignoreVars, dockerVars>>

\* UpdateGraph returns: the deferred session.Close runs
UpdateGraphReturns ==
    /\ upc = "updating"
    /\ pc = "close"
    /\ session' = Close(session)
    /\ pc' = "idle"
    /\ tx' = EmptyStore
    /\ existingIDs' = {}
    /\ attempts' = 0
    /\ pre' = store
    /\ same' = FALSE
    /\ g' = IF result = "ok" THEN g ELSE EmptyGraph
    /\ runs' = IF runs > MaxRuns THEN MaxRuns ELSE runs
    /\ upc' = "updated"
    /\ UNCHANGED <<store, result, neo4jCfg, steps, driver, runErr, storeBefore,
                   resolveVars, buildVars, toolVars, ignoreVars, dockerVars>>

\* updateNeo4jDatabase returns nil or "failed to update neo4j graph": the
\* deferred client.Close runs
UpdateNeo4jDatabaseReturns ==
    /\ upc = "updated"
    /\ driver' = Close(driver)
    /\ runErr' = IF result = "ok" THEN "nil" ELSE UpdateError
    /\ upc' = "returned"
    /\ UNCHANGED <<neo4jCfg, steps, session, storeBefore, syncVars, resolveVars, buildVars,
                   toolVars, ignoreVars, dockerVars>>

\* the command is over; the next one is another process
ProcessExits ==
    /\ upc = "returned"
    /\ neo4jCfg' = NoNeo4jConfig
    /\ steps' = NoSteps
    /\ driver' = NotAcquired
    /\ session' = NotAcquired
    /\ runErr' = "none"
    /\ storeBefore' = EmptyStore
    /\ upc' = "idle"
    /\ UNCHANGED <<syncVars, resolveVars, buildVars, toolVars, ignoreVars, dockerVars>>

NextRun ==
    \/ UpdateNeo4jDatabase
    \/ ValidateFail
    \/ ValidateOK
    \/ NewClientFail
    \/ NewClientOK
    \/ VerifyConnectivityFail
    \/ VerifyConnectivityOK
    \/ \E graph \in Graphs : CallUpdateGraph(graph)
    \/ BeginTx
    \/ Fetch
    \/ FetchFail
    \/ Delete
    \/ DeleteFail
    \/ Upsert
    \/ UpsertFail
    \/ Commit
    \/ CommitFail
    \/ RollbackRetry
    \/ RollbackError
    \/ UpdateGraphReturns
    \/ UpdateNeo4jDatabaseReturns
    \/ ProcessExits

SpecRun == Init /\ [][NextRun]_vars

(***************************************************************************)
(* git.UpdateGitignore(entriesToIgnore), one action per way it returns.    *)
(***************************************************************************)
InitIgnore ==
    /\ SyncIdle /\ ResolveIdle /\ BuildIdle /\ ToolsIdle /\ RunIdle /\ DockerIdle
    /\ inWorkTree \in BOOLEAN
    /\ gitignore \in IgnoreFiles
    /\ ignoreBefore = gitignore
    /\ ignoreErr = "none"
    /\ ignoreCalls = 0
    /\ prevOK = FALSE

\* the function is called once more
IgnoreCalled ==
    /\ ignoreCalls < MaxCalls
    /\ ignoreCalls' = ignoreCalls + 1
    /\ ignoreBefore' = gitignore
    /\ prevOK' = (ignoreCalls > 0 /\ ignoreErr = "nil")
    /\ UNCHANGED <<inWorkTree, syncVars, resolveVars, buildVars, toolVars, runVars, dockerVars>>

\* if !IsRepository() { ...; return nil }
UpdateGitignoreOutside ==
    /\ IgnoreCalled
    /\ ~inWorkTree
    /\ gitignore' = gitignore
    /\ ignoreErr' = "nil"

\* os.OpenFile fails
UpdateGitignoreOpenFail ==
    /\ IgnoreCalled
    /\ inWorkTree
    /\ gitignore' = gitignore
    /\ ignoreErr' = OpenError

\* file.Seek or the scanner fails: the file is open, and was created when
\* it did not exist
UpdateGitignoreReadFail ==
    /\ IgnoreCalled
    /\ inWorkTree
    /\ gitignore' = IgnoreFile(OpenedText(gitignore))
    /\ ignoreErr' = ReadError

\* a WriteString fails after some of the missing entries were written
UpdateGitignoreWriteFail ==
    /\ IgnoreCalled
    /\ inWorkTree
    /\ LET missing == MissingEntries(OpenedText(gitignore), EntriesToIgnore)
       IN  \E k \in 0..(Len(missing) - 1) :
               gitignore' = IgnoreFile(AppendEntries(OpenedText(gitignore), SubSeq(missing, 1, k)))
    /\ ignoreErr' = WriteError

\* every missing entry is appended and nil is returned
UpdateGitignoreOK ==
    /\ IgnoreCalled
    /\ inWorkTree
    /\ gitignore' = IgnoreFile(AppendEntries(OpenedText(gitignore),
                                             MissingEntries(OpenedText(gitignore), EntriesToIgnore)))
    /\ ignoreErr' = "nil"

NextIgnore ==
    \/ UpdateGitignoreOutside
    \/ UpdateGitignoreOpenFail
    \/ UpdateGitignoreReadFail
    \/ UpdateGitignoreWriteFail
    \/ UpdateGitignoreOK

SpecIgnore == InitIgnore /\ [][NextIgnore]_vars

(***************************************************************************)
(* runStart and runStop, one action per way they return.                   *)
(***************************************************************************)
InitDocker ==
    /\ SyncIdle /\ ResolveIdle /\ BuildIdle /\ ToolsIdle /\ RunIdle /\ IgnoreIdle
    /\ containers \in Daemons
    /\ dataDirExists \in BOOLEAN
    /\ dockerCfg \in DockerConfigs
    /\ lastCmd = NoCommand
    /\ dockerErr = "none"
    /\ containersBefore = containers
    /\ cmds = 0

\* one more command is run; neither command writes the configuration or
\* the neo4j-data directory
DockerCommand ==
    /\ cmds < MaxCommands
    /\ cmds' = cmds + 1
    /\ containersBefore' = containers
    /\ UNCHANGED <<dataDirExists, dockerCfg, syncVars, resolveVars, buildVars, toolVars,
                   runVars, ignoreVars>>

\* a command that returns an error and has changed nothing
Refused(name, err) ==
    /\ DockerCommand
    /\ lastCmd' = [name |-> name, stopFailed |-> FALSE]
    /\ dockerErr' = err
    /\ containers' = containers

\* cfg, err := config.Load(); if err != nil
StartLoadFail ==
    /\ LoadFailed(dockerCfg)
    /\ Refused("start", "failed to load configuration")

\* if cfg.Neo4j.Password == ""
StartNoPassword ==
    /\ ~LoadFailed(dockerCfg)
    /\ dockerCfg.password = ""
    /\ Refused("start", "neo4j password not set in configuration file")

\* os.Stat(dataDir) says the directory does not exist
StartNoDataDir ==
    /\ ~LoadFailed(dockerCfg)
    /\ dockerCfg.password # ""
    /\ ~dataDirExists
    /\ Refused("start", "neo4j-data directory does not exist")

\* client.NewClientWithOpts or cli.ContainerList fails
StartDockerFail ==
    /\ StartChecked(dockerCfg, dataDirExists)
    /\ Refused("start", "failed to list containers")

StartAlreadyRunning ==
    /\ StartChecked(dockerCfg, dataDirExists)
    /\ AlreadyRunning(containers)
    /\ Refused("start", "container is already running")

\* the container of that name does not run and cannot be removed
StartRemoveFail ==
    /\ StartChecked(dockerCfg, dataDirExists)
    /\ ~AlreadyRunning(containers)
    /\ Named(containers) # {}
    /\ Refused("start", "failed to remove stopped container")

\* cli.ImagePull or cli.ContainerCreate fails, after the stopped container
\* was removed
StartCreateFail ==
    /\ StartChecked(dockerCfg, dataDirExists)
    /\ ~AlreadyRunning(containers)
    /\ DockerCommand
    /\ lastCmd' = [name |-> "start", stopFailed |-> FALSE]
    /\ containers' = RemoveNamed(containers)
    /\ dockerErr' \in {"failed to pull image", "failed to create container"}

\* cli.ContainerStart fails: the container was created
StartStartFail ==
    /\ StartChecked(dockerCfg, dataDirExists)
    /\ ~AlreadyRunning(containers)
    /\ DockerCommand
    /\ lastCmd' = [name |-> "start", stopFailed |-> FALSE]
    /\ containers' = ContainerCreate(RemoveNamed(containers),
                                     NewContainerID(containers, containersBefore))
    /\ dockerErr' = "failed to start container"

\* the stopped container, if any, is removed, a container is created and
\* started, and nil is returned
StartOK ==
    /\ StartChecked(dockerCfg, dataDirExists)
    /\ ~AlreadyRunning(containers)
    /\ DockerCommand
    /\ lastCmd' = [name |-> "start", stopFailed |-> FALSE]
    /\ LET id == NewContainerID(containers, containersBefore)
       IN  containers' = ContainerStart(ContainerCreate(RemoveNamed(containers), id), id)
    /\ dockerErr' = "nil"

\* client.NewClientWithOpts or cli.ContainerList fails
StopDockerFail ==
    /\ cmds < MaxCommands
    /\ Refused("stop", "failed to list containers")

\* if !containerFound
StopNotFound ==
    /\ Named(containers) = {}
    /\ Refused("stop", "container not found")

\* cli.ContainerRemove fails, after ContainerStop stopped the container or
\* failed to
StopRemoveFail ==
    /\ Named(containers) # {}
    /\ DockerCommand
    /\ \E id \in Named(containers) :
          \/ /\ containers' = ContainerStop(containers, id)
             /\ lastCmd' = [name |-> "stop", stopFailed |-> FALSE]
          \/ /\ containers' = containers
             /\ lastCmd' = [name |-> "stop", stopFailed |-> TRUE]
    /\ dockerErr' = "failed to remove container"

\* the container is removed, whether ContainerStop stopped it or failed
StopOK ==
    /\ Named(containers) # {}
    /\ DockerCommand
    /\ \E failed \in BOOLEAN : lastCmd' = [name |-> "stop", stopFailed |-> failed]
    /\ containers' = RemoveNamed(containers)
    /\ dockerErr' = "nil"

NextDocker ==
    \/ StartLoadFail
    \/ StartNoPassword
    \/ StartNoDataDir
    \/ StartDockerFail
    \/ StartAlreadyRunning
    \/ StartRemoveFail
    \/ StartCreateFail
    \/ StartStartFail
    \/ StartOK
    \/ StopDockerFail
    \/ StopNotFound
    \/ StopRemoveFail
    \/ StopOK

SpecDocker == InitDocker /\ [][NextDocker]_vars

(***************************************************************************)
(* Properties of the synchronizer.  A run has returned when pc = "close":  *)
(* the transaction is committed or rolled back and result is set.          *)
(***************************************************************************)
Returned(r) == pc = "close" /\ result = r

\* What the three steps of the transaction function make of a store.
SyncOf(s, graph) ==
    UpsertGraph(DeleteObsoleteResources(s, FetchExistingResourceIDs(s), graph), graph)

RelPairs(s) == DOMAIN s.rels

EdgePairs(graph) == {<<graph.edges[i].from, graph.edges[i].to>> : i \in DOMAIN graph.edges}

\* C1: convergence.  After UpdateGraph(G1) and then UpdateGraph(G2) on an
\* empty store, both successful, the store equals what UpdateGraph(G2)
\* alone makes of an empty store.
C1_Convergence ==
    (Returned("ok") /\ runs = 2) => store = SyncOf(EmptyStore, g)

\* C2: idempotence.  When a successful run is followed by a successful run
\* with the same graph, the second run leaves the store as the first left
\* it: the same bag of nodes with the same properties and the same bag of
\* relationships.
C2_Idempotence ==
    (Returned("ok") /\ same) => store = pre

C2_Witness ==
    /\ Returned("ok") /\ same
    /\ Len(g.nodes) = 2 /\ store.rels # EmptyBag
    /\ RelPairs(store) # EdgePairs(g)

\* C3: atomicity.  While a run has not committed, and after it returned an
\* error, the store is the store the run started with; what a successful
\* run commits is the whole of delete and upsert applied to that store.
C3_Atomicity ==
    /\ (pc # "idle" /\ result # "ok") => store = pre
    /\ Returned("ok") => store = SyncOf(pre, g)

\* a run that failed after its transaction had deleted a node
C3_Witness ==
    /\ Returned("err")
    /\ StoreIDs(tx) # StoreIDs(store)
    /\ store # EmptyStore

\* C4: after a successful run the persisted ids are the node ids of the
\* graph and no relationship has an endpoint outside them.
C4_ObsoleteRemoved ==
    Returned("ok") =>
        /\ StoreIDs(store) = NewIDs(g)
        /\ \A r \in RelPairs(store) : r[1] \in NewIDs(g) /\ r[2] \in NewIDs(g)

\* the run deleted a node that had a relationship to a node that stays
C4_Witness ==
    /\ Returned("ok")
    /\ \E r \in RelPairs(pre) :
          /\ r[1] \notin NewIDs(g)
          /\ r[2] \in NewIDs(g)

\* C5: after a successful run every node of the graph is persisted exactly
\* once, with the type, provider and name of the graph's node.
C5_NodeUpsert ==
    Returned("ok") =>
        \A i \in DOMAIN g.nodes :
            /\ CopiesIn(g.nodes[i], store.nodes) = 1
            /\ \A n \in DOMAIN store.nodes : n.id = g.nodes[i].id => n = g.nodes[i]

\* one node was overwritten and one was created by the same run
C5_Witness ==
    /\ Returned("ok")
    /\ \E i, j \in DOMAIN g.nodes :
          /\ g.nodes[i].id \in StoreIDs(pre) /\ ~BagIn(g.nodes[i], pre.nodes)
          /\ g.nodes[j].id \notin StoreIDs(pre)

\* C6: there is never more than one relationship between an ordered pair
\* of nodes, and after a successful run every edge of the graph whose two
\* endpoints are nodes of the graph is persisted.
C6_EdgeUpsert ==
    /\ \A r \in RelPairs(store) : CopiesIn(r, store.rels) = 1
    /\ Returned("ok") =>
          \A i \in DOMAIN g.edges :
              (g.edges[i].from \in NewIDs(g) /\ g.edges[i].to \in NewIDs(g))
                  => BagIn(<<g.edges[i].from, g.edges[i].to>>, store.rels)

\* the graph lists one edge twice, and the relationship was already there
C6_Witness ==
    /\ Returned("ok")
    /\ Len(g.edges) = 2 /\ g.edges[1] = g.edges[2]
    /\ BagIn(<<g.edges[1].from, g.edges[1].to>>, pre.rels)
    /\ BagIn(<<g.edges[1].from, g.edges[1].to>>, store.rels)

(***************************************************************************)
(* Properties of the resolver.                                             *)
(***************************************************************************)
FirstSegment(reference) == Split(reference)[1]

\* the known addresses the reference equals or extends by "." or "["
Matching(reference, ids) ==
    {a \in ids : \/ reference = a
                 \/ HasPrefix(reference, a \o <<".">>)
                 \/ HasPrefix(reference, a \o <<"[">>)}

\* C7: longest match.  For a reference whose first segment is neither var
\* nor local, resolveResourceAddress returns a known address that the
\* reference equals or extends, and no other such address is longer.
C7_LongestMatch ==
    ( /\ rpc = "resolved"
      /\ via = "resolveResourceAddress"
      /\ FirstSegment(ref) \notin {<<"var">>, <<"local">>}
      /\ Matching(ref, nodeMap) # {} )
    => /\ depAddress \in Matching(ref, nodeMap)
       /\ \A a \in Matching(ref, nodeMap) : StrLen(a) <= StrLen(depAddress)

\* a shorter known address is a prefix of the reference too
C7_Witness ==
    /\ rpc = "resolved"
    /\ via = "resolveResourceAddress"
    /\ FirstSegment(ref) \notin {<<"var">>, <<"local">>}
    /\ \E a \in Matching(ref, nodeMap) : StrLen(a) < StrLen(depAddress)

\* C8: a reference whose first segment is var or local resolves to the
\* empty string under both resolvers, whatever the known addresses, and
\* adds no edge key.
C8_VarLocalFiltered ==
    ( /\ rpc \in {"resolved", "done"}
      /\ FirstSegment(ref) \in {<<"var">>, <<"local">>} )
    => /\ depAddress = EmptyString
       /\ uniqueEdges = {}

\* a known address is a textual prefix of the local reference, and another
\* resource carries the reference
C8_Witness ==
    /\ rpc = "done"
    /\ FirstSegment(ref) = <<"local">>
    /\ Len(ref) > 1
    /\ Matching(ref, nodeMap) # {}
    /\ Cardinality(nodeMap) = 2

\* C9: resolution is total.  No reference and no list of known addresses
\* makes a resolver panic.
C9_Total == rpc # "panicked"

(***************************************************************************)
(* Properties of Build.                                                    *)
(***************************************************************************)
NodeIDs(graph) == {graph.nodes[i].id : i \in DOMAIN graph.nodes}

\* C10: no dangling edge target.  In the graph Build returns, the `to` of
\* every edge is the id of a node of that graph.
C10_NoDanglingTarget ==
    bpc = "done" => \A i \in DOMAIN built.edges : built.edges[i].to \in NodeIDs(built)

(***************************************************************************)
(* Properties of Build.                                                    *)
(***************************************************************************)
\* what the prior-state strategy gives for the plan
StateKeys == extractEdgesFromState(plan.prior_state, NodeIDs(built))

\* what the configuration strategy gives for the plan
ConfigKeys == extractEdgesFromConfig(plan.configuration, NodeIDs(built), nodeKeys)

\* Build went through the configuration scan
ConfigScanned == bpc \in {"edges", "done"} /\ StateKeys = {}

\* the resource entries of a configuration module and of its module calls
RECURSIVE AllConfigResources(_)
AllConfigResources(module) ==
    Range(module.resources)
    \cup UNION {AllConfigResources(module.module_calls[name].module) :
                   name \in DOMAIN module.module_calls}

\* the entries of the configuration that parse and whose address is a node
ScannedResources ==
    {ConfigResourceOf(raw) :
        raw \in {r \in AllConfigResources(plan.configuration) :
                    UnmarshalOK(r) /\ ConfigResourceOf(r).address \in NodeIDs(built)}}

\* C11: self-loop exclusion in the configuration scan.  A reference of a
\* resource that resolves to the address of that resource adds no edge: the
\* configuration strategy gives no edge key from an address to itself, and
\* the graph built from it has no edge with from = to.
C11_NoSelfLoop ==
    ConfigScanned =>
        /\ \A a \in NodeIDs(built) : EdgeKey(a, a) \notin uniqueEdges
        /\ bpc = "done" =>
              \A i \in DOMAIN built.edges : built.edges[i].from # built.edges[i].to

\* a resource refers to itself by an index suffix and to another resource
C11_Witness ==
    /\ ConfigScanned /\ bpc = "done"
    /\ \E r \in ScannedResources :
          /\ r.address \o <<"[", "0]", ".", "id">> \in findReferencesInRawMessage(r.expressions)
          /\ resolveResourceAddress(r.address \o <<"[", "0]", ".", "id">>, nodeKeys) = r.address
          /\ \E i \in DOMAIN built.edges : built.edges[i].from = r.address

\* C12: edge uniqueness.  No two edges of the graph Build returns have the
\* same from and the same to.
C12_UniqueEdges ==
    bpc = "done" =>
        \A i, j \in DOMAIN built.edges :
            (built.edges[i].from = built.edges[j].from /\ built.edges[i].to = built.edges[j].to)
                => i = j

\* C13: fallback activation.  The edge keys Build materializes are those of
\* the prior state when the prior state gives at least one, and those of
\* the configuration otherwise; the edges of the graph are those keys, each
\* turned into an edge.
C13_Fallback ==
    /\ bpc \in {"edges", "done"} =>
          uniqueEdges = IF StateKeys # {} THEN StateKeys ELSE ConfigKeys
    /\ bpc = "done" => Range(built.edges) = {EdgeOfKey(k) : k \in uniqueEdges}

\* the prior state gave edges while the configuration holds another one
C13_Witness ==
    /\ bpc = "done"
    /\ StateKeys # {}
    /\ ConfigKeys \ StateKeys # {}

\* the resource entries of a module and of its child modules, at any depth
RECURSIVE AllPlanned(_)
RECURSIVE AllPlannedOfAll(_)
AllPlanned(module) == module.resources \o AllPlannedOfAll(module.child_modules)

AllPlannedOfAll(modules) ==
    IF modules = <<>> THEN <<>>
    ELSE AllPlanned(Head(modules)) \o AllPlannedOfAll(Tail(modules))

NodeOfEntry(r) ==
    [id |-> r.address, type |-> r.type, provider |-> r.provider_name, name |-> r.name]

ManagedEntries == SelectSeq(AllPlanned(plan.planned_values), LAMBDA r : r.mode = "managed")

Count(sq, x) == Cardinality({i \in DOMAIN sq : sq[i] = x})

\* C14: managed-only node set.  Once the nodes are extracted, every node is
\* the copy of an entry of mode "managed", and every such entry, at any
\* depth of child modules, has as many nodes as there are entries like it;
\* no entry of another mode has a node.
C14_ManagedNodes ==
    bpc # "start" =>
        /\ \A i \in DOMAIN built.nodes :
              \E j \in DOMAIN ManagedEntries : built.nodes[i] = NodeOfEntry(ManagedEntries[j])
        /\ \A j \in DOMAIN ManagedEntries :
              Count(built.nodes, NodeOfEntry(ManagedEntries[j]))
                  = Count([k \in DOMAIN ManagedEntries |-> NodeOfEntry(ManagedEntries[k])],
                          NodeOfEntry(ManagedEntries[j]))

\* managed entries at three depths, data entries at two
C14_Witness ==
    /\ bpc = "done"
    /\ AddrDeep \in NodeIDs(built) /\ AddrModApp \in NodeIDs(built)
    /\ AddrCluster \in NodeIDs(built)
    /\ \E i \in DOMAIN plan.planned_values.resources :
          plan.planned_values.resources[i].mode = "data"
    /\ Len(built.nodes) < Len(AllPlanned(plan.planned_values)) - 1

\* every string of every "references" list at any depth of a JSON value
RECURSIVE AllReferences(_)
AllReferences(raw) ==
    IF raw.kind = "object"
    THEN (IF "references" \in DOMAIN raw.fields
             /\ raw.fields["references"].kind = "array"
             /\ IsStringList(raw.fields["references"])
          THEN StringList(raw.fields["references"])
          ELSE {})
         \cup UNION {AllReferences(raw.fields[k]) : k \in DOMAIN raw.fields}
    ELSE IF raw.kind = "array"
    THEN UNION {AllReferences(raw.items[i]) : i \in DOMAIN raw.items}
    ELSE {}

\* C15: complete nested reference scan.  After the configuration scan, every
\* string of every "references" list at any depth of the expressions of a
\* scanned resource has gone through the resolver and the callback: the edge
\* key it stands for is among the keys collected.
C15_CompleteScan ==
    ConfigScanned =>
        \A r \in ScannedResources :
            \A reference \in AllReferences(r.expressions) :
                EdgeKeysOf(r.address, resolveResourceAddress(reference, nodeKeys))
                    \subseteq uniqueEdges

\* a JSON value without the fragments that do not parse: an object whose
\* "references" is not a list of strings is taken out
RECURSIVE Repair(_)
Repair(raw) ==
    IF raw.kind = "object"
    THEN IF "references" \in DOMAIN raw.fields /\ ~IsStringList(raw.fields["references"])
         THEN JNull
         ELSE JObject([k \in DOMAIN raw.fields |-> Repair(raw.fields[k])])
    ELSE IF raw.kind = "array"
    THEN JArray([i \in DOMAIN raw.items |-> Repair(raw.items[i])])
    ELSE raw

\* a configuration module without the resource entries and the fragments
\* that do not parse
RECURSIVE RepairModule(_)
RepairModule(module) ==
    [resources |->
        LET wellFormed == SelectSeq(module.resources, UnmarshalOK)
        IN  [i \in DOMAIN wellFormed |-> Repair(wellFormed[i])],
     module_calls |->
        [name \in DOMAIN module.module_calls |->
            [module |-> RepairModule(module.module_calls[name].module)]]]

HasMalformed(module) ==
    \E raw \in AllConfigResources(module) :
        \/ ~UnmarshalOK(raw)
        \/ Repair(raw) # raw

Merged(flag, key) ==
    IF flag.changed THEN cfg[key] = flag.value
    ELSE (file.state = "present" /\ key \in DOMAIN file.keys) => cfg[key] = file.keys[key]

\* C17: flags override the configuration file.  For format, update,
\* neo4j-uri, neo4j-user and neo4j-pass the Config holds the value of the
\* flag when the flag was set and the value of the file when it was not;
\* the plan file is the positional argument, else the --plan flag, else the
\* value of the file.
C17_FlagsOverride ==
    cpc = "merged" =>
        /\ Merged(flags.format, "format")
        /\ Merged(flags.update, "update")
        /\ Merged(flags.neo4j_uri, "uri")
        /\ Merged(flags.neo4j_user, "user")
        /\ Merged(flags.neo4j_pass, "password")
        /\ IF Len(args) > 0 THEN cfg.planfile = args[1] ELSE Merged(flags.plan, "planfile")

\* a file that sets every key, --format and --plan set, --neo4j-uri not
\* set, and a positional argument
C17_Witness ==
    /\ cpc = "merged"
    /\ file = FullFile
    /\ flags.format = SetTo("json") /\ cfg.format = "json"
    /\ ~flags.neo4j_uri.changed /\ cfg.uri = "bolt://db:7687"
    /\ flags.plan.changed /\ Len(args) > 0 /\ cfg.planfile = "arg.tfplan"

\* C18: init does not overwrite.  A run of init that finds the
\* configuration file returns an error that says "already exists" and
\* leaves the file, the data directory and .gitignore as they were; a run
\* that succeeds leaves the file and the data directory in place, so the
\* run after it fails.
C18_InitNoOverwrite ==
    [][ ipc' = ipc + 1 =>
            /\ fs.config.exists => (fs' = fs /\ Contains(initErr', "already exists"))
            /\ (~fs.config.exists /\ initErr' = NoError) =>
                   (fs'.config.exists /\ fs'.dataDir) ]_vars

\* the second of two runs failed on the file the first one created
C18_Witness ==
    /\ ipc = 2
    /\ Contains(initErr, "already exists")
    /\ fs.config.password \in Passwords
    /\ fs.dataDir
    /\ fs.gitignore.exists

\* the node a DOT node stands for when every address gives a type and a
\* name: the last segment is the name
LastSegment(address) == Split(address)[Len(Split(address))]

\* C19 as stated: the type and the name of every node are the
\* second-to-last and the last dot-separated segment of its id.
C19_SegmentsOfEveryId ==
    (ppc = "done" /\ ~dotGraph.nil) =>
        \A i \in DOMAIN parsed.nodes :
            /\ parsed.nodes[i].name = LastSegment(parsed.nodes[i].id)
            /\ Len(Split(parsed.nodes[i].id)) >= 2 =>
                  parsed.nodes[i].type
                      = Split(parsed.nodes[i].id)[Len(Split(parsed.nodes[i].id)) - 1]

\* what ParseGraph is to return for one DOT node
ExpectedNode(node) ==
    LET id == cleanLabel(IF node.hasLabel THEN node.label ELSE node.name)
        n  == Len(Split(id))
    IN  [id |-> id,
         type |-> IF n >= 2 THEN Split(id)[n - 1] ELSE <<>>,
         name |-> IF n >= 2 THEN Split(id)[n] ELSE <<>>,
         provider |-> <<>>]

IsDotNode(name) == \E n \in dotGraph.nodes : n.name = name

\* C19: ParseGraph.  A nil graph gives an error.  Otherwise there is one
\* node per DOT node, its id the cleaned label (the cleaned node name when
\* there is no label), its type and name the second-to-last and last
\* segment of the id when the id has two segments or more and empty when
\* it has one; and one edge, in order, per DOT edge whose two ends are DOT
\* nodes, from and to the ids of those nodes, relation DEPENDS_ON.
C19_ParseGraph ==
    ppc = "done" =>
        IF dotGraph.nil
        THEN parsed.err # "nil" /\ parsed.nodes = <<>> /\ parsed.edges = <<>>
        ELSE /\ parsed.err = "nil"
             /\ Len(parsed.nodes) = Cardinality(dotGraph.nodes)
             /\ \A n \in dotGraph.nodes :
                   Count(parsed.nodes, ExpectedNode(n))
                       = Cardinality({m \in dotGraph.nodes : ExpectedNode(m) = ExpectedNode(n)})
             /\ LET both == SelectSeq(dotGraph.edges,
                                      LAMBDA e : IsDotNode(e.src) /\ IsDotNode(e.dst))
                IN  /\ Len(parsed.edges) = Len(both)
                    /\ \A i \in DOMAIN both :
                          /\ \E n \in dotGraph.nodes :
                                n.name = both[i].src /\ parsed.edges[i].from = ExpectedNode(n).id
                          /\ \E n \in dotGraph.nodes :
                                n.name = both[i].dst /\ parsed.edges[i].to = ExpectedNode(n).id
                          /\ parsed.edges[i].relation = "DEPENDS_ON"

\* a bracketed label, a quoted node name, an edge that is kept and one
\* that ends outside the nodes
C19_Witness ==
    /\ ppc = "done"
    /\ Len(parsed.nodes) = 2
    /\ \E i \in DOMAIN parsed.nodes :
          parsed.nodes[i] = [id |-> <<"a", ".", "a">>, type |-> <<"a">>, name |-> <<"a">>,
                             provider |-> <<>>]
    /\ Len(dotGraph.edges) = 2 /\ Len(parsed.edges) = 1
    /\ dotGraph.edges[1].dst = NameOther

(***************************************************************************)
(* Properties of the queries.                                              *)
(***************************************************************************)
\* C20: values are bound, never interpolated.  The query of the upsert is
\* one of two constant texts, chosen by whether the graph has an edge: any
\* other graph that agrees on that gives the same text; the delete query is
\* one constant text; the ids, types, providers, names and edge ends are in
\* the parameter map.
C20_Parameterized ==
    pc = "upsert" =>
        /\ \A other \in Graphs :
              (Len(other.edges) > 0) = (Len(g.edges) > 0)
                  => ToCypherTransaction(other).query = ToCypherTransaction(g).query
        /\ ToCypherTransaction(g).query \in {NodeClauses, NodeClauses \o EdgeClauses}
        /\ \A other \in Graphs :
              DeleteRequest(existingIDs, other).query = DeleteRequest(existingIDs, g).query
        /\ \A i \in DOMAIN g.nodes :
              ToCypherTransaction(g).params.nodes[i] = g.nodes[i]
        /\ \A i \in DOMAIN g.edges :
              /\ ToCypherTransaction(g).params.edges[i].from = g.edges[i].from
              /\ ToCypherTransaction(g).params.edges[i].to = g.edges[i].to

\* a graph with two nodes and an edge is about to be written
C20_Witness ==
    /\ pc = "upsert"
    /\ Len(g.nodes) = 2 /\ Len(g.edges) > 0
    /\ g.nodes[1].id # g.nodes[2].id

(***************************************************************************)
(* Properties of the graph Build returns, whichever strategy gave edges.   *)
(***************************************************************************)
\* C21: no self-loop in any graph.  The graph Build returns has no edge
\* with from = to, whichever strategy produced the edges; a prior-state
\* resource whose depends_on lists its own address gives no edge for it.
C21_NoSelfLoopInAnyGraph ==
    /\ bpc \in {"state", "edges", "done"} =>
          \A a \in NodeIDs(built) : EdgeKey(a, a) \notin StateKeys
    /\ bpc = "done" =>
          \A i \in DOMAIN built.edges : built.edges[i].from # built.edges[i].to

\* C22: edge sources are nodes.  In the graph Build returns the from of
\* every edge is the id of a node of that graph; an entry of the prior
\* state or of the configuration whose address is not a node is the source
\* of no edge key, and the prior state gives no key to an address that is
\* not a node.
C22_SourcesAreNodes ==
    bpc = "done" =>
        /\ \A i \in DOMAIN built.edges : built.edges[i].from \in NodeIDs(built)
        /\ \A k \in uniqueEdges : \E a \in NodeIDs(built) : HasPrefix(k, a \o <<" -> ">>)
        /\ \A k \in StateKeys : \E a, b \in NodeIDs(built) : k = EdgeKey(a, b)
(***************************************************************************)
(* Properties of the defaults of the configuration.                        *)
(***************************************************************************)
\* the setting is given neither by its flag nor by the file
NotGiven(changed, key) ==
    /\ ~changed
    /\ file.state = "present" => key \notin DOMAIN file.keys

\* C25: defaults apply.  Every setting (uri, user, password, docker_image,
\* format, planfile, update) that is given neither by a flag nor by the
\* configuration file holds its DefaultConfig value in the Config that
\* LoadAndMerge returns, when there is no file and when the file omits it.
C25_DefaultsApply ==
    cpc = "merged" =>
        /\ NotGiven(flags.neo4j_uri.changed, "uri") => cfg.uri = DefaultConfig.uri
        /\ NotGiven(flags.neo4j_user.changed, "user") => cfg.user = DefaultConfig.user
        /\ NotGiven(flags.neo4j_pass.changed, "password") => cfg.password = DefaultConfig.password
        /\ NotGiven(FALSE, "docker_image") => cfg.docker_image = DefaultConfig.docker_image
        /\ NotGiven(flags.format.changed, "format") => cfg.format = DefaultConfig.format
        /\ NotGiven(flags.plan.changed \/ Len(args) > 0, "planfile") =>
              cfg.planfile = DefaultConfig.planfile
        /\ NotGiven(flags.update.changed, "update") => cfg.update = DefaultConfig.update
(***************************************************************************)
(* Properties of the upsert: what a run may create.                        *)
(***************************************************************************)
\* the edges of a graph that name an id that is no node of the graph
DanglingEdges(graph) ==
    {e \in Range(graph.edges) : e.from \notin NewIDs(graph) \/ e.to \notin NewIDs(graph)}

\* a store holds nothing for the ids outside the graph and no relationship
\* for a dangling edge of the graph
OnlyFromNodeList(s, graph) ==
    /\ StoreIDs(s) \subseteq NewIDs(graph)
    /\ \A e \in DanglingEdges(graph) :
          /\ ~BagIn(<<e.from, e.to>>, s.rels)
          /\ {e.from, e.to} \cap StoreIDs(s) \subseteq NewIDs(graph)

\* C28: the sync creates nodes only from the node list.  The upsert of G,
\* run after the delete step, persists no node whose id is not the id of a
\* node of G, and an edge of G with an end that is no node of G gives
\* neither a node nor a relationship; the upsert goes through with such an
\* edge, and a run that returned nil has committed exactly that.
C28_OnlyListedNodes ==
    /\ pc = "upsert" => OnlyFromNodeList(UpsertGraph(tx, g), g)
    /\ pc = "commit" => OnlyFromNodeList(tx, g)
    /\ (pc = "close" /\ result = "ok") =>
          /\ OnlyFromNodeList(store, g)
          /\ StoreIDs(store) \ StoreIDs(pre) \subseteq NewIDs(g)

\* a run with a node and an edge to an id that is no node returned nil
C28_Witness ==
    /\ pc = "close" /\ result = "ok"
    /\ g.nodes # <<>>
    /\ \E e \in DanglingEdges(g) : e.from \in NewIDs(g) /\ e.to \notin NewIDs(g)
    /\ StoreIDs(pre) \ NewIDs(g) # {}
(***************************************************************************)
(* Properties of the executions of the transaction function.               *)
(***************************************************************************)
\* C29: re-execution of the transaction function is safe.  Every
\* execution starts from the committed store with fresh locals and
\* computes the ids, the delete and the upsert from that store and the
\* graph alone; when an execution was rolled back and the function was
\* executed again, what is committed in the end is what one successful
\* execution commits.
C29_ReexecutionSafe ==
    /\ pc = "fetch" => (tx = pre /\ existingIDs = {})
    /\ pc = "delete" => (tx = pre /\ existingIDs = FetchExistingResourceIDs(pre))
    /\ pc = "upsert" =>
          tx = DeleteObsoleteResources(pre, FetchExistingResourceIDs(pre), g)
    /\ pc = "commit" => tx = SyncOf(pre, g)
    /\ (Returned("ok") /\ attempts > 0) => store = SyncOf(pre, g)

\* the function was executed again after a rollback, and the run deleted a
\* node and created another
C29_Witness ==
    /\ Returned("ok") /\ attempts > 0
    /\ StoreIDs(pre) \ StoreIDs(store) # {}
    /\ StoreIDs(store) \ StoreIDs(pre) # {}
(***************************************************************************)
(* Properties of the order of the keys.                                    *)
(***************************************************************************)
\* C30: the result does not depend on the order of equal-length keys.
\* createNodeLookupMap sorts the ids by length only; for every reference,
\* resolveResourceAddress returns the same address for every order of the
\* same ids that is non-increasing in length, because two distinct ids of
\* equal length never both match one reference.
C30_TieOrderIrrelevant ==
    (rpc = "resolved" /\ via = "resolveResourceAddress") =>
        /\ \A a, b \in nodeMap :
              (a # b /\ StrLen(a) = StrLen(b)) => ~(KeyMatches(ref, a) /\ KeyMatches(ref, b))
        /\ \A keys \in NodeKeyOrders(nodeKeys) :
              resolveResourceAddress(ref, keys) = depAddress

\* two ids of equal length, the matching one second in the sorted keys
C30_Witness ==
    /\ rpc = "resolved" /\ via = "resolveResourceAddress"
    /\ Len(nodeKeys) = 2
    /\ nodeKeys[1] # nodeKeys[2]
    /\ StrLen(nodeKeys[1]) = StrLen(nodeKeys[2])
    /\ depAddress = nodeKeys[2]
    /\ Cardinality(NodeKeyOrders(SliceOf(nodeMap))) = 2
(***************************************************************************)
(* Properties of updateNeo4jDatabase.                                      *)
(***************************************************************************)
AllPassed == steps = [validate |-> "ok", client |-> "ok", verify |-> "ok"]

AnyFailed == \E k \in DOMAIN steps : steps[k] = "failed"

\* the error of the step that failed
StepError ==
    IF steps.validate = "failed" THEN ValidationError
    ELSE IF steps.client = "failed" THEN ClientError
    ELSE ConnectError

\* C23: no write without a verified connection.  UpdateGraph is called
\* only after validateNeo4jConfig passed (URI, user and password all
\* non-empty), the client was created and VerifyConnectivity succeeded;
\* when one of the three fails the function returns its error at once
\* without a retry, no session and no transaction was opened, and the
\* store is as it was.
C23_VerifiedBeforeWrite ==
    /\ steps.validate = "ok" =>
          (neo4jCfg.uri # "" /\ neo4jCfg.user # "" /\ neo4jCfg.password # "")
    /\ (pc # "idle" \/ session.acquired > 0) => AllPassed
    /\ AnyFailed =>
          /\ upc = "returned"
          /\ runErr = StepError
          /\ session = NotAcquired
          /\ pc = "idle"
          /\ store = storeBefore
          /\ driver.acquired <= 1

\* the server could not be reached while the database holds a graph
C23_Witness ==
    /\ upc = "returned"
    /\ steps.verify = "failed"
    /\ runErr = ConnectError
    /\ store # EmptyStore
    /\ store = storeBefore

\* C24: scoped acquisition.  In one run the driver is created at most once
\* and a session is opened at most once; when the run has returned, on
\* every path, each was closed as often as it was acquired; the steps of
\* UpdateGraph run while the session and the driver are open, and the
\* session is closed before the driver.
C24_ScopedAcquisition ==
    /\ driver.acquired <= 1 /\ session.acquired <= 1
    /\ driver.closed <= driver.acquired /\ session.closed <= session.acquired
    /\ upc = "returned" =>
          /\ driver.closed = driver.acquired /\ driver.state # "open"
          /\ session.closed = session.acquired /\ session.state # "open"
    /\ pc # "idle" => (session.state = "open" /\ driver.state = "open")
    /\ session.state = "open" => driver.state = "open"
    /\ (upc \in {"client", "verified", "updating", "updated"}) => driver.state = "open"

\* the transaction failed, and the session and the driver were closed
C24_Witness ==
    /\ upc = "returned"
    /\ runErr = UpdateError
    /\ session = [state |-> "closed", acquired |-> 1, closed |-> 1]
    /\ driver = [state |-> "closed", acquired |-> 1, closed |-> 1]

(***************************************************************************)
(* Properties of UpdateGitignore.                                          *)
(***************************************************************************)
IgnoreLines(f) == ScanLines(f.text)

IsPrefixOf(short, long) ==
    Len(short) <= Len(long) /\ SubSeq(long, 1, Len(short)) = short

\* what the claim says apart from the presence of the entries: the lines
\* that were there are kept in their order, a second call appends nothing,
\* and outside a work tree nil is returned and the file is not touched
AppendOnlyAndIdempotent ==
    /\ (inWorkTree /\ ignoreErr = "nil") =>
          /\ gitignore.exists
          /\ IsPrefixOf(ignoreBefore.text, gitignore.text)
          /\ IsPrefixOf(IgnoreLines(ignoreBefore), IgnoreLines(gitignore))
    /\ (prevOK /\ ignoreErr = "nil") => gitignore = ignoreBefore
    /\ ~inWorkTree => (ignoreErr = "nil" /\ gitignore = ignoreBefore)

\* C26 as stated: UpdateGitignore is idempotent and append-only, and after
\* a successful call inside a work tree every requested entry is a line of
\* .gitignore.
C26_EntriesAreLines ==
    ignoreCalls > 0 =>
        /\ AppendOnlyAndIdempotent
        /\ (inWorkTree /\ ignoreErr = "nil") =>
              \A e \in Range(EntriesToIgnore) :
                  \E i \in DOMAIN IgnoreLines(gitignore) : IgnoreLines(gitignore)[i] = <<e>>

\* What UpdateGitignore does guarantee: it is idempotent and append-only,
\* and after a successful call inside a work tree every requested entry is
\* a line of .gitignore once the spaces around the line are trimmed; what
\* was appended is a line feed and the entry for each entry that no line
\* held.
EntriesAreTrimmedLines ==
    ignoreCalls > 0 =>
        /\ AppendOnlyAndIdempotent
        /\ (inWorkTree /\ ignoreErr = "nil") =>
              /\ \A e \in Range(EntriesToIgnore) :
                    \E i \in DOMAIN IgnoreLines(gitignore) :
                        TrimSpace(IgnoreLines(gitignore)[i]) = <<e>>
              /\ \E added \in SubSeqsOf(EntriesToIgnore) :
                    /\ gitignore.text = AppendEntries(ignoreBefore.text, Seconds(added))
                    /\ \A e \in Range(EntriesToIgnore) :
                          e \in Range(Seconds(added)) <=>
                              \A i \in DOMAIN IgnoreLines(ignoreBefore) :
                                  TrimSpace(IgnoreLines(ignoreBefore)[i]) # <<e>>

\* a call appended one entry next to a line that held the other between
\* spaces
PaddedEntryKept ==
    /\ ignoreCalls > 0 /\ ignoreErr = "nil" /\ inWorkTree
    /\ \E i \in DOMAIN IgnoreLines(gitignore) : IgnoreLines(gitignore)[i] = <<ConfigEntry>>
    /\ \E i \in DOMAIN IgnoreLines(gitignore) :
          /\ IgnoreLines(gitignore)[i] # <<DataEntry>>
          /\ TrimSpace(IgnoreLines(gitignore)[i]) = <<DataEntry>>
    /\ gitignore.text[Len(gitignore.text)] = ConfigEntry

(***************************************************************************)
(* Properties of start and stop.                                           *)
(***************************************************************************)
\* C27: the container lifecycle of start and stop.  A step of start with
\* an empty password or without neo4j-data returns an error and creates
\* nothing; with a running container of the name it returns an error and
\* leaves the container as it is; a start that returns nil has removed the
\* stopped container of the name, if any, and leaves exactly one container
\* of the name, a new one, running.  A stop without a container of the
\* name returns an error; a stop that returns nil has removed the
\* container, whether stopping it failed or not.  No command deletes
\* neo4j-data or touches another container, and at most one container has
\* the name.
C27_ContainerLifecycle ==
    [][ /\ dataDirExists' = dataDirExists
        /\ Cardinality(Named(containers')) <= 1
        /\ \A id \in DOMAIN containers \ Named(containers) :
              id \in DOMAIN containers' /\ containers'[id] = containers[id]
        /\ lastCmd'.name = "start" =>
              /\ (LoadFailed(dockerCfg) \/ dockerCfg.password = "" \/ ~dataDirExists) =>
                    (dockerErr' # "nil" /\ containers' = containers)
              /\ (\E id \in Named(containers) : containers[id].state = "running") =>
                    (dockerErr' # "nil" /\ containers' = containers)
              /\ dockerErr' = "nil" =>
                    \E id \in DOMAIN containers' \ DOMAIN containers :
                        /\ Named(containers') = {id}
                        /\ containers'[id].state = "running"
        /\ lastCmd'.name = "stop" =>
              /\ Named(containers) = {} => (dockerErr' # "nil" /\ containers' = containers)
              /\ dockerErr' = "nil" => (Named(containers) # {} /\ Named(containers') = {})
              /\ (Named(containers) # {} /\ dockerErr' # "nil") =>
                    dockerErr' \in {"failed to list containers", "failed to remove container"}
      ]_vars

\* a start removed a stopped container and started a new one, after a stop
\* whose ContainerStop failed or a start that could not start its container
C27_Witness ==
    /\ lastCmd.name = "start" /\ dockerErr = "nil"
    /\ cmds > 1
    /\ \E id \in Named(containersBefore) :
          /\ containersBefore[id].state # "running"
          /\ id \notin DOMAIN containers
    /\ \E id \in Named(containers) : containers[id].state = "running"
    /\ "c0" \in DOMAIN containers
====
